---- MODULE Spec2Model ----
(***************************************************************************)
(* A model of the timeblock-app renderer: the Timeline interaction state   *)
(* machine (create / move / resize drags over day buckets), the overlap    *)
(* layout engine, the markdown persistence codec and the debounced         *)
(* per-bucket save path of the application shell.                          *)
(*                                                                         *)
(* Arithmetic is exact: pixel-to-minute conversions are kept as fractions  *)
(* [n, d] and Math.round is floor(x + 1/2); IEEE rounding error of the     *)
(* JavaScript doubles is not modelled.                                     *)
(***************************************************************************)
EXTENDS Integers, Sequences, FiniteSets, TLC

\* ------------------------------------------------------------------ bounds
\* Number of visible day columns (App dayCount, 1..5 in the program).
NumDays == 2
\* Pointer / keyboard events delivered in one behaviour of Spec.
MaxEvents == 4
\* Entries in one input list of the overlap layout.
MaxLayoutEntries == 4
\* Entries in one input list of the persistence codec.
MaxCodecEntries == 2
\* handleEntriesChange calls followed by the save pipeline.
MaxCommits == 3
\* Lines of a hand-edited day document handed to the parser.
MaxDocLines == 3
\* Entries in the today bucket of the now panel.
MaxNowEntries == 3
\* Milliseconds the clock advances in one step of the save pipeline.
TickMs == 100

\* ------------------------------------------------------- program constants
DAY_START_HOUR == 6
DAY_END_HOUR == 23
SNAP_MINUTES == 15
MIN_RESIZE_MINUTES == 15
CREATE_THRESHOLD_PX == 5
DEFAULT_COLOR == "#4a9eff"
SAVE_DEBOUNCE_MS == 300

DayStart == DAY_START_HOUR * 60
DayEnd == DAY_END_HOUR * 60

\* ---------------------------------------------------------------- helpers
Max(a, b) == IF a >= b THEN a ELSE b
Min(a, b) == IF a <= b THEN a ELSE b

\* A fraction n/d with d > 0 (the value of a JavaScript number expression).
Frac(n, d) == [n |-> n, d |-> d]

\* time.ts pixelsToMinutes: (pixels / hourHeight) * 60 + DAY_START_HOUR * 60
pixelsToMinutes(pixels, hh) == Frac(pixels * 60 + DayStart * hh, hh)

\* Whole minutes without the grid: Math.floor(m).
snapToGridFloor(m) == m.n \div m.d
\* time.ts snapToGrid on a fraction: Math.round(m / 15) * 15, Math.round
\* rounding halves towards +infinity.
snapToGrid(m) ==
  ((2 * m.n + SNAP_MINUTES * m.d) \div (2 * SNAP_MINUTES * m.d)) * SNAP_MINUTES

\* snapToGrid of an integer number of minutes.
snapInt(m) == snapToGrid(Frac(m, 1))

\* time.ts minutesToPixels, floored/ceiled to whole pixels where a pointer
\* position inside a block is needed.
minutesToPixelsFloor(minutes, hh) == ((minutes - DayStart) * hh) \div 60

\* ---------------------------------------------------------------- entries
\* types.ts TimeEntry.
Entry(id, title, s, e, color, done) ==
  [id |-> id, title |-> title, startMinutes |-> s, endMinutes |-> e,
   color |-> color, done |-> done]

\* The visible day columns (DayColumn index).
Days == 0 .. (NumDays - 1)

\* The date keys of the day buckets (dateStr, as day numbers): one more than
\* the columns, so that stepping the view one day leaves a bucket out of it.
Dates == 0 .. NumDays

\* App.tsx todayStr = getDateStr(realToday): the day the app was started on.
todayStr == 0

\* Hour heights the initial-zoom layout effect can set (visibleHeight / 9
\* clamped to [20, 200]): two sample viewports.
HourHeights == {60, 40}

\* Pointer y positions (timeline-relative pixels, getTimelineY) sampled for
\* window-level mouse moves: above the canvas, its top edge, inside it, near
\* its bottom edge and below it.
PointerYs == {-100, 0, 100, 1015, 1100}

\* Stored days the app starts from: an entry on the grid, and two entries a
\* hand-edited document can hold (shorter than 15 minutes at the window
\* start; starting at the window end, as in the codec tests).
Pool ==
  << Entry("a", "t", 540, 600, DEFAULT_COLOR, FALSE),
     Entry("b", "t", 360, 370, DEFAULT_COLOR, FALSE),
     Entry("c", "t", 1380, 1425, DEFAULT_COLOR, FALSE) >>

\* Sequence helpers.
Range(s) == {s[i] : i \in 1 .. Len(s)}
IdsOf(s) == {s[i].id : i \in 1 .. Len(s)}

\* Where the stored days put the pool entries at start (day index per pool
\* entry, -1 for an entry no stored day holds).
InitPlacements ==
  { <<0, -1, -1>>, <<0, 0, -1>>, <<0, -1, 1>>, <<1, 0, 0>>, <<-1, 0, 1>>, <<0, 0, 0>> }

\* The bucket of day d when pool entry i is placed on day place[i].
BucketOf(place, d) ==
  SelectSeq(Pool, LAMBDA e : \E i \in 1 .. Len(Pool) : Pool[i] = e /\ place[i] = d)

\* --------------------------------------------------------- overlap layout
\* The comparator without its tie-break.
LayoutCompareByStart(a, b) == a.startMinutes - b.startMinutes

\* overlap.ts sort comparator: start time, longer duration first on ties.
LayoutCompare(a, b) ==
  IF a.startMinutes # b.startMinutes
    THEN a.startMinutes - b.startMinutes
    ELSE (b.endMinutes - b.startMinutes) - (a.endMinutes - a.startMinutes)

\* Array.prototype.sort is stable: e goes behind every element that does not
\* compare greater than it.
LayoutInsert(sorted, e) ==
  LET p == Cardinality({i \in 1 .. Len(sorted) : LayoutCompare(sorted[i], e) <= 0})
  IN  SubSeq(sorted, 1, p) \o << e >> \o SubSeq(sorted, p + 1, Len(sorted))

RECURSIVE LayoutSortPrefix(_, _)
LayoutSortPrefix(entries, n) ==
  IF n = 0 THEN << >> ELSE LayoutInsert(LayoutSortPrefix(entries, n - 1), entries[n])

\* overlap.ts: const sorted = [...entries].sort(...)
LayoutSort(entries) == LayoutSortPrefix(entries, Len(entries))

\* overlap.ts sweep test: the entry overlaps the current group.
JoinsGroupInclusive(entry, groupEnd) == entry.startMinutes <= groupEnd
JoinsGroup(entry, groupEnd) == entry.startMinutes < groupEnd

\* overlap.ts sweep loop from index i on; the result is the list of groups.
RECURSIVE SweepGroups(_, _, _, _, _)
SweepGroups(sorted, i, groups, currentGroup, groupEnd) ==
  IF i > Len(sorted)
    THEN Append(groups, currentGroup)
    ELSE IF JoinsGroup(sorted[i], groupEnd)
           THEN SweepGroups(sorted, i + 1, groups, Append(currentGroup, sorted[i]),
                            Max(groupEnd, sorted[i].endMinutes))
           ELSE SweepGroups(sorted, i + 1, Append(groups, currentGroup), << sorted[i] >>,
                            sorted[i].endMinutes)

\* overlap.ts: the groups of a non-empty sorted list.
LayoutGroups(sorted) ==
  SweepGroups(sorted, 2, << >>, << sorted[1] >>, sorted[1].endMinutes)

\* overlap.ts column test: the entry fits behind the column's last entry.
ColumnFreeByEnd(entry, columnEnd) == entry.endMinutes >= columnEnd
ColumnFreeStrict(entry, columnEnd) == entry.startMinutes > columnEnd
ColumnFree(entry, columnEnd) == entry.startMinutes >= columnEnd

\* overlap.ts inner loop: the first column the entry fits in, or a new one
\* (1-based here).
PlaceColumn(entry, columns) ==
  LET free == {c \in 1 .. Len(columns) : ColumnFree(entry, columns[c])}
  IN  IF free # {} THEN CHOOSE c \in free : \A c2 \in free : c <= c2
                   ELSE Len(columns) + 1

\* overlap.ts packing loop of one group from index i on: the column end
\* times and the columnIndex set for each id (a later set overwrites).
RECURSIVE PackGroup(_, _, _, _)
PackGroup(group, i, columns, index) ==
  IF i > Len(group)
    THEN [columns |-> columns, index |-> index]
    ELSE LET entry == group[i]
             c == PlaceColumn(entry, columns)
             newColumns == IF c <= Len(columns)
                             THEN [columns EXCEPT ![c] = entry.endMinutes]
                             ELSE Append(columns, entry.endMinutes)
         IN  PackGroup(group, i + 1, newColumns, (entry.id :> (c - 1)) @@ index)

\* overlap.ts: the LayoutInfo of the ids of one group.
GroupLayout(group) ==
  LET packed == PackGroup(group, 1, << >>, [x \in {} |-> 0])
  IN  [id \in DOMAIN packed.index |->
         [columnIndex |-> packed.index[id], totalColumns |-> Len(packed.columns)]]

\* overlap.ts: result.set over the groups in order.
RECURSIVE LayoutOfGroups(_, _)
LayoutOfGroups(groups, n) ==
  IF n = 0 THEN [x \in {} |-> 0]
           ELSE GroupLayout(groups[n]) @@ LayoutOfGroups(groups, n - 1)

\* overlap.ts computeOverlapLayout.
computeOverlapLayout(entries) ==
  IF Len(entries) = 0
    THEN [x \in {} |-> 0]
    ELSE LET groups == LayoutGroups(LayoutSort(entries))
         IN  LayoutOfGroups(groups, Len(groups))

\* ------------------------------------------------------ persistence codec
\* In the codec a string is the sequence of its characters. The app writes
\* "\n" line ends; a hand-edited document may also hold "\r". Both are line
\* terminators of the regular expressions: ^ and $ under the m flag match at
\* them and . does not match them.
NL == "\n"
CR == "\r"
LineTerminators == {NL, CR}
HeadingMark == << "#", "#", " " >>
TimeSep == << " ", "-", " " >>
TitleSep == << " ", "|", " " >>
ColorKey == << "-", " ", "*", "*", "C", "o", "l", "o", "r", ":", "*", "*", " " >>
IdKey == << "-", " ", "*", "*", "I", "D", ":", "*", "*", " " >>
DoneMark ==
  << "-", " ", "*", "*", "D", "o", "n", "e", ":", "*", "*", " ", "t", "r", "u", "e" >>
FallbackColor == << "#", "4", "a", "9", "e", "f", "f" >>

DigitChars == << "0", "1", "2", "3", "4", "5", "6", "7", "8", "9" >>
HexChars == Range(DigitChars) \cup {"a", "b", "c", "d", "e", "f", "A", "B", "C", "D", "E", "F"}
DigitValue(c) == (CHOOSE i \in 1 .. 10 : DigitChars[i] = c) - 1

\* Number.prototype.toString() of a natural number.
RECURSIVE Decimal(_)
Decimal(n) ==
  IF n < 10 THEN << DigitChars[n + 1] >>
            ELSE Decimal(n \div 10) \o << DigitChars[(n % 10) + 1] >>

\* String.prototype.padStart(2, '0').
PadStart2(str) == IF Len(str) < 2 THEN << "0" >> \o str ELSE str

\* time.ts formatTime24.
formatTime24(totalMinutes) ==
  PadStart2(Decimal(totalMinutes \div 60)) \o << ":" >> \o PadStart2(Decimal(totalMinutes % 60))

\* markdown.ts parseTimeStr on a string the heading pattern captured ("dd:dd").
parseTimeStr(str) ==
  (DigitValue(str[1]) * 10 + DigitValue(str[2])) * 60
    + DigitValue(str[4]) * 10 + DigitValue(str[5])

\* markdown.ts: [...entries].sort((a, b) => a.startMinutes - b.startMinutes),
\* a stable sort.
CodecInsert(sorted, e) ==
  LET p == Cardinality({i \in 1 .. Len(sorted) : sorted[i].startMinutes - e.startMinutes <= 0})
  IN  SubSeq(sorted, 1, p) \o << e >> \o SubSeq(sorted, p + 1, Len(sorted))

RECURSIVE CodecSortPrefix(_, _)
CodecSortPrefix(entries, n) ==
  IF n = 0 THEN << >> ELSE CodecInsert(CodecSortPrefix(entries, n - 1), entries[n])

CodecSort(entries) == CodecSortPrefix(entries, Len(entries))

\* markdown.ts entriesToMarkdown: the text appended for one entry.
EntryMarkdown(entry) ==
  HeadingMark \o formatTime24(entry.startMinutes) \o TimeSep
    \o formatTime24(entry.endMinutes) \o TitleSep \o entry.title \o << NL >>
    \o ColorKey \o entry.color \o << NL >>
    \o IdKey \o entry.id \o << NL >>
    \o (IF entry.done THEN DoneMark \o << NL >> ELSE << >>)
    \o << NL >>

RECURSIVE EntriesMarkdown(_, _)
EntriesMarkdown(sorted, i) ==
  IF i > Len(sorted) THEN << >>
                     ELSE EntryMarkdown(sorted[i]) \o EntriesMarkdown(sorted, i + 1)

\* markdown.ts entriesToMarkdown; dateStr is date.toLocaleDateString(...).
entriesToMarkdown(entries, dateStr) ==
  << "#", " " >> \o dateStr \o << NL, NL >> \o EntriesMarkdown(CodecSort(entries), 1)

\* The lines of a text (the places ^ and $ match under the m flag).
RECURSIVE SplitLines(_)
SplitLines(md) ==
  LET breaks == {i \in 1 .. Len(md) : md[i] \in LineTerminators}
  IN  IF breaks = {}
        THEN << md >>
        ELSE LET p == CHOOSE i \in breaks : \A j \in breaks : i <= j
             IN  << SubSeq(md, 1, p - 1) >> \o SplitLines(SubSeq(md, p + 1, Len(md)))

\* The line terminators of a text in order: the k-th one ends line k.
LineBreaks(md) == SelectSeq(md, LAMBDA c : c \in LineTerminators)

HasPrefix(str, prefix) ==
  Len(str) >= Len(prefix) /\ SubSeq(str, 1, Len(prefix)) = prefix

\* \d{2}:\d{2}
IsTimeStr(str) ==
  /\ Len(str) = 5
  /\ str[3] = ":"
  /\ \A i \in {1, 2, 4, 5} : str[i] \in Range(DigitChars)

\* The pattern with (.*) for the title.
HeadingMatchesAnyTitle(line) ==
  /\ Len(line) >= 19
  /\ HasPrefix(line, HeadingMark)
  /\ IsTimeStr(SubSeq(line, 4, 8))
  /\ SubSeq(line, 9, 11) = TimeSep
  /\ IsTimeStr(SubSeq(line, 12, 16))
  /\ SubSeq(line, 17, 19) = TitleSep
\* markdown.ts blockRegex /^## (\d{2}:\d{2}) - (\d{2}:\d{2}) \| (.+)$/gm on
\* one line; (.+) needs at least one character.
HeadingMatches(line) ==
  /\ Len(line) >= 20
  /\ HasPrefix(line, HeadingMark)
  /\ IsTimeStr(SubSeq(line, 4, 8))
  /\ SubSeq(line, 9, 11) = TimeSep
  /\ IsTimeStr(SubSeq(line, 12, 16))
  /\ SubSeq(line, 17, 19) = TitleSep

\* afterMatch.indexOf('\n## '): the metadata stop before a line that starts
\* with "## " and follows a "\n".
MetadataStop(line, break) == break = NL /\ HasPrefix(line, HeadingMark)

\* markdown.ts metadata: the lines behind heading line h up to the next
\* stop (breaks[k - 1] is the terminator in front of line k).
MetadataLines(lines, breaks, h) ==
  LET stops == {k \in (h + 1) .. Len(lines) : MetadataStop(lines[k], breaks[k - 1])}
      last == IF stops = {} THEN Len(lines)
                            ELSE (CHOOSE k \in stops : \A j \in stops : k <= j) - 1
  IN  SubSeq(lines, h + 1, last)

\* The places << line, column >> of the metadata lines where the key occurs.
KeyPlaces(meta, key) ==
  UNION {{<< l, c >> : c \in {k \in 1 .. Len(meta[l]) :
                                /\ k + Len(key) - 1 <= Len(meta[l])
                                /\ SubSeq(meta[l], k, k + Len(key) - 1) = key}} :
         l \in 1 .. Len(meta)}

\* The leftmost place (String.prototype.match returns the first match).
FirstPlace(places) ==
  CHOOSE pl \in places :
    \A q \in places : pl[1] < q[1] \/ (pl[1] = q[1] /\ pl[2] <= q[2])

\* /- \*\*Color:\*\* (#[0-9a-fA-F]{6})/
ColorPlaces(meta) ==
  {pl \in KeyPlaces(meta, ColorKey) :
     LET line == meta[pl[1]]
         v == pl[2] + Len(ColorKey)
     IN  /\ v + 6 <= Len(line)
         /\ line[v] = "#"
         /\ \A i \in 1 .. 6 : line[v + i] \in HexChars}

\* /- \*\*ID:\*\* (.+)/
IdPlaces(meta) ==
  {pl \in KeyPlaces(meta, IdKey) : pl[2] + Len(IdKey) <= Len(meta[pl[1]])}

\* String.prototype.trim (the space is the only white space that occurs).
RECURSIVE Trim(_)
Trim(str) ==
  IF Len(str) > 0 /\ str[1] = " " THEN Trim(Tail(str))
  ELSE IF Len(str) > 0 /\ str[Len(str)] = " " THEN Trim(SubSeq(str, 1, Len(str) - 1))
  ELSE str

\* markdown.ts markdownToEntries: the entry pushed for heading line h;
\* freshId stands for the id synthesized when the ID line is missing.
ParsedEntry(lines, breaks, h, freshId) ==
  LET line == lines[h]
      meta == MetadataLines(lines, breaks, h)
      colors == ColorPlaces(meta)
      ids == IdPlaces(meta)
      cp == FirstPlace(colors)
      ip == FirstPlace(ids)
  IN  Entry(
        IF ids # {}
          THEN Trim(SubSeq(meta[ip[1]], ip[2] + Len(IdKey), Len(meta[ip[1]])))
          ELSE freshId,
        SubSeq(line, 20, Len(line)),
        parseTimeStr(SubSeq(line, 4, 8)),
        parseTimeStr(SubSeq(line, 12, 16)),
        IF colors # {}
          THEN SubSeq(meta[cp[1]], cp[2] + Len(ColorKey), cp[2] + Len(ColorKey) + 6)
          ELSE FallbackColor,
        KeyPlaces(meta, DoneMark) # {})

\* markdown.ts markdownToEntries: one entry per matching line, in order.
RECURSIVE ParseFrom(_, _, _, _)
ParseFrom(lines, breaks, h, n) ==
  IF h > Len(lines) THEN << >>
  ELSE IF HeadingMatches(lines[h])
         THEN << ParsedEntry(lines, breaks, h, << "g" >> \o Decimal(n)) >>
                \o ParseFrom(lines, breaks, h + 1, n + 1)
         ELSE ParseFrom(lines, breaks, h + 1, n)

markdownToEntries(md) == ParseFrom(SplitLines(md), LineBreaks(md), 1, 1)

\* ------------------------------------------------------------------ state
VARIABLES
  entriesMap,   \* App: entriesMap state and the stored days, date key -> entry list
  selectedDate, \* App: selectedDate state, the date of the leftmost column
  dragMode,     \* Timeline: dragMode state
  selectedIds,  \* Timeline: selectedIds state
  editingId,    \* Timeline: editingId state ("" is null)
  colorMenu,    \* Timeline: colorMenu state ([open |-> FALSE] is null)
  hourHeight,   \* Timeline: hourHeight state
  view,         \* what the window mousemove/mouseup listeners closed over
  idCounter,    \* number of ids generateId has handed out
  events,       \* events delivered so far
  lastOp,       \* the handler that ran last (history)
  atPress,      \* history: what held at the press that started the drag
  notified,     \* history: the date keys the last handler passed to onEntriesChange
  layoutEntries, \* overlap layout: the entries handed to computeOverlapLayout
  layoutResult,  \* overlap layout: the Map it returned
  layoutPc,      \* overlap layout: "input" before the call, "done" after it
  codecEntries,  \* codec: the entry list handed to entriesToMarkdown
  codecMd,       \* codec: the document text
  codecParsed,   \* codec: the list markdownToEntries returned
  codecPc,       \* codec: "input", "serialized", "parsed"
  hasElectronAPI,\* save: window.electronAPI is defined (desktop shell)
  commitCount,   \* save: handleEntriesChange calls so far
  saveTimeouts,  \* save: saveTimeouts.current, dateStr -> timer handle
  timers,        \* save: live timers of the renderer, handle -> timer
  commitLog,     \* save: dateStr -> the commits to it, oldest first (history)
  editAge,       \* save: dateStr -> ms since its last commit, capped (history)
  todayEntries,  \* now: entriesMap[todayStr] || []
  currentMinutes,\* now: currentMinutes state
  nowActive,     \* now: activeEntry of the last render, << >> is undefined
  nowNext,       \* now: nextEntry of the last render, << >> is null
  lastPushed,    \* now: the snapshot of the last sendActiveEntry call (history)
  notifyChannel, \* now: 'active-entry-changed' messages in flight to the main process
  lastActiveEntry, \* main process: lastActiveEntry, << >> is null
  widgetWindow,  \* main process: widgetWindow, "none" is null, else "loading" or "loaded"
  widgetSent,    \* main process: the last 'active-entry-update' sent to the loaded widget
  widgetEntry,   \* widget: entry state, << >> is null
  widgetNext,    \* widget: the next entry of the last update received (history)
  nowSeconds,    \* widget: the wall clock, seconds since midnight
  remainingSeconds, \* widget: remainingSeconds state
  widgetPress,   \* widget: the closure of handleMouseDown while its listeners are attached
  widgetCalls,   \* widget: the electronAPI calls made since the last press
  pointerPath,   \* widget: the positions of the mousemove events since the last press (history)
  ipcChannel,    \* save: 'save-day' invocations in flight to the main process
  stored,        \* save: dateStr -> snapshot last written (file or localStorage)
  writeLog,      \* save: dateStr -> commit ordinals of the writes, in order
  loadedMap,     \* reload: App's entriesMap, a Record: dateStr -> entries of the dates loaded
  visibleDateStrs, \* reload: the date keys on screen
  pendingSave,   \* reload: dateStr -> the entries held by the armed debounce timer
  mainQueue,     \* reload: save-day and load-day invocations in flight to the main process
  loadReplies,   \* reload: the results of loadAll calls on their way back to the renderer
  disk,          \* reload: dateStr -> the entries of the stored document
  editLog        \* reload: the dateStr of each edit, in order (history)

timelineVars == << entriesMap, selectedDate, dragMode, selectedIds, editingId, colorMenu, hourHeight,
                   view, idCounter, events, lastOp, atPress, notified >>
layoutVars == << layoutEntries, layoutResult, layoutPc >>
codecVars == << codecEntries, codecMd, codecParsed, codecPc >>
reloadVars ==
  << loadedMap, visibleDateStrs, pendingSave, mainQueue, loadReplies, disk, editLog >>
saveVars ==
  << hasElectronAPI, commitCount, saveTimeouts, timers, ipcChannel, stored,
     writeLog, commitLog, editAge, reloadVars >>
nowVars ==
  << todayEntries, currentMinutes, nowActive, nowNext, lastPushed, notifyChannel,
     lastActiveEntry, widgetWindow, widgetSent >>
widgetPressVars == << widgetPress, widgetCalls, pointerPath >>
widgetVars == << widgetEntry, widgetNext, nowSeconds, remainingSeconds, widgetPressVars >>
vars == << timelineVars, layoutVars, codecVars, saveVars, nowVars, widgetVars >>

\* History record taken at a press: per moved id the durations of the entries
\* carrying it, whether every entry was inside the day window, the pressed day.
PressRecord(dur, windowOk, day) == [dur |-> dur, windowOk |-> windowOk, day |-> day]

\* DragMode variants (Timeline.tsx type DragMode).
DragNone == [type |-> "none"]
DragCreating(dayIndex, startY, currentY) ==
  [type |-> "creating", dayIndex |-> dayIndex, startY |-> startY, currentY |-> currentY]
DragMoving(dayIndex, entryId, offsetY, startMinutesMap) ==
  [type |-> "moving", dayIndex |-> dayIndex, entryId |-> entryId,
   offsetY |-> offsetY, startMinutesMap |-> startMinutesMap]
DragResizing(dayIndex, entryId, edge) ==
  [type |-> "resizing", dayIndex |-> dayIndex, entryId |-> entryId, edge |-> edge]

NoMenu == [open |-> FALSE]
\* colorMenu state of an open menu (its screen position is left out).
OpenMenu(entryId, dayIndex) == [open |-> TRUE, entryId |-> entryId, dayIndex |-> dayIndex]

\* App.tsx dayColumns: column i shows the bucket of selectedDate + i.
DayColumns(map, sel) ==
  [col \in Days |-> [dateStr |-> sel + col, entries |-> map[sel + col]]]

\* The days prop of the current render.
dayColumns == DayColumns(entriesMap, selectedDate)

\* The closure of the listeners effect: dragMode and days of one render.
ViewOf(dm, map) == [dragMode |-> dm, days |-> DayColumns(map, selectedDate)]

\* An id generator that hands out the id of a stored entry.
generateIdStored(k) == "a"
\* time.ts generateId, assumed collision free: the k-th id handed out.
generateId(k) == "n" \o ToString(k)

\* App.tsx handleEntriesChange: setEntriesMap(prev => ({...prev, [dateStr]: entries})).
handleEntriesChange(map, dateStr, entries) == [map EXCEPT ![dateStr] = entries]

InitTimeline ==
  /\ \E place \in InitPlacements :
       entriesMap = [d \in Dates |-> BucketOf(place, d)]
  /\ selectedDate = todayStr
  /\ dragMode = DragNone
  /\ selectedIds = {}
  /\ editingId = ""
  /\ colorMenu = NoMenu
  /\ hourHeight \in HourHeights
  /\ view = ViewOf(dragMode, entriesMap)
  /\ idCounter = 0
  /\ events = 0
  /\ lastOp = "init"
  /\ atPress = PressRecord([x \in {} |-> {}], FALSE, 0)
  /\ notified = {}

\* ------------------------------------------------------ Timeline handlers
\* Pixel rows of the canvas a press can land on: the timeline div and the
\* last hour row hanging below it.
CanvasYs == {y \in PointerYs : 0 <= y /\ y < (DAY_END_HOUR - DAY_START_HOUR + 1) * hourHeight}

\* Where a press on a block lands: its top pixel row or its middle.
PressYs(entry) ==
  LET top == minutesToPixelsFloor(entry.startMinutes, hourHeight)
      bottom == minutesToPixelsFloor(entry.endMinutes, hourHeight)
  IN  {top, (top + bottom) \div 2}

\* Durations of every entry with the given id, in any bucket.
DurationsOf(map, id) ==
  UNION {{map[d][i].endMinutes - map[d][i].startMinutes :
            i \in {j \in 1 .. Len(map[d]) : map[d][j].id = id}} : d \in DOMAIN map}

\* The day window: 360 <= startMinutes < endMinutes <= 1380 for every entry.
InWindow(e) ==
  DayStart <= e.startMinutes /\ e.startMinutes < e.endMinutes /\ e.endMinutes <= DayEnd
AllInWindow(map) == \A d \in DOMAIN map : \A i \in 1 .. Len(map[d]) : InWindow(map[d][i])

\* Timeline.tsx handleTimelineMouseDown: primary press on the empty canvas.
TimelineMouseDown(y, col, ctrl) ==
  /\ dragMode.type = "none"
  /\ events < MaxEvents
  /\ y \in CanvasYs
  /\ selectedIds' = IF ctrl THEN selectedIds ELSE {}
  /\ dragMode' = DragCreating(col, y, y)
  /\ colorMenu' = NoMenu
  /\ view' = ViewOf(dragMode', entriesMap)
  /\ events' = events + 1
  /\ lastOp' = "timelineMouseDown"
  /\ notified' = {}
  /\ UNCHANGED << entriesMap, selectedDate, editingId, hourHeight, idCounter, atPress >>

\* startMinutesMap built by handleBlockMouseDown: the entries of the pressed
\* day whose id is to move, each with its startMinutes (a later entry with
\* the same id overwrites an earlier one).
StartMinutesMap(dayEntries, idsToMove) ==
  [id \in idsToMove \cap IdsOf(dayEntries) |->
     LET last == CHOOSE i \in 1 .. Len(dayEntries) :
                   /\ dayEntries[i].id = id
                   /\ \A j \in (i + 1) .. Len(dayEntries) : dayEntries[j].id # id
     IN  dayEntries[last].startMinutes]

\* handleBlockMouseDown, ctrl branch: the pressed id only ever joins.
ToggleSelectedAddOnly(selected, entryId) == selected \cup {entryId}
\* handleBlockMouseDown, ctrl branch: newSelected.delete(entryId) if it is in
\* the set, newSelected.add(entryId) otherwise.
ToggleSelected(selected, entryId) ==
  IF entryId \in selected THEN selected \ {entryId} ELSE selected \cup {entryId}

\* Timeline.tsx handleBlockMouseDown: primary press on block i of day d.
BlockMouseDown(d, i, y, ctrl) ==
  /\ dragMode.type = "none"
  /\ events < MaxEvents
  /\ i \in 1 .. Len(dayColumns[d].entries)
  /\ y \in PressYs(dayColumns[d].entries[i])
  /\ LET entryId == dayColumns[d].entries[i].id
         newSelected == IF entryId \in selectedIds THEN selectedIds ELSE {entryId}
         idsToMove == IF Cardinality(newSelected) > 0 THEN newSelected ELSE {entryId}
         smap == StartMinutesMap(dayColumns[d].entries, idsToMove)
     IN  IF ctrl
           THEN /\ selectedIds' = ToggleSelected(selectedIds, entryId)
                /\ UNCHANGED << dragMode, atPress >>
           ELSE /\ selectedIds' = newSelected
                /\ dragMode' = DragMoving(d, entryId, y, smap)
                /\ atPress' = PressRecord([id \in DOMAIN smap |-> DurationsOf(entriesMap, id)],
                                           AllInWindow(entriesMap), dayColumns[d].dateStr)
  /\ colorMenu' = NoMenu
  /\ view' = ViewOf(dragMode', entriesMap)
  /\ events' = events + 1
  /\ lastOp' = IF ctrl THEN "blockCtrlMouseDown" ELSE "blockMouseDown"
  /\ notified' = {}
  /\ UNCHANGED << entriesMap, selectedDate, editingId, hourHeight, idCounter >>

\* Timeline.tsx handleResizeStart: press on a resize handle of block i of day d.
ResizeStart(d, i, edge) ==
  /\ dragMode.type = "none"
  /\ events < MaxEvents
  /\ i \in 1 .. Len(dayColumns[d].entries)
  /\ colorMenu' = NoMenu
  /\ dragMode' = DragResizing(d, dayColumns[d].entries[i].id, edge)
  /\ view' = ViewOf(dragMode', entriesMap)
  /\ events' = events + 1
  /\ atPress' = PressRecord([x \in {} |-> {}], AllInWindow(entriesMap), dayColumns[d].dateStr)
  /\ lastOp' = "resizeStart"
  /\ notified' = {}
  /\ UNCHANGED << entriesMap, selectedDate, selectedIds, editingId, hourHeight, idCounter >>

\* Timeline.tsx handleMouseMove, moving branch: deltaMinutes =
\* snapToGrid(pixelsToMinutes(deltaY, hourHeight) - DAY_START_HOUR * 60).
DeltaMinutes(y, offsetY, hh) ==
  LET m == pixelsToMinutes(y - offsetY, hh)
  IN  snapToGrid(Frac(m.n - DayStart * m.d, m.d))

\* Timeline.tsx applyDelta.
applyDeltaNoClampEnd(entry, startMinutesMap, deltaMinutes) ==
  IF entry.id \notin DOMAIN startMinutesMap
    THEN entry
    ELSE LET duration == entry.endMinutes - entry.startMinutes
             newStart == snapInt(startMinutesMap[entry.id] + deltaMinutes)
         IN  [entry EXCEPT
                !.startMinutes = Max(DayStart, Min(DayEnd - duration, newStart)),
                !.endMinutes = Min(DayEnd, newStart + duration)]
applyDelta(entry, startMinutesMap, deltaMinutes) ==
  IF entry.id \notin DOMAIN startMinutesMap
    THEN entry
    ELSE LET duration == entry.endMinutes - entry.startMinutes
             newStart == snapInt(startMinutesMap[entry.id] + deltaMinutes)
         IN  [entry EXCEPT
                !.startMinutes = Max(DayStart, Min(DayEnd - duration, newStart)),
                !.endMinutes = Max(DayStart + duration, Min(DayEnd, newStart + duration))]

\* Timeline.tsx handleMouseMove, resizing branch, for one entry.
resizeEntryNoMin(entry, entryId, edge, minutes) ==
  IF entry.id # entryId
    THEN entry
    ELSE IF edge = "top"
           THEN [entry EXCEPT !.startMinutes = Max(DayStart, Min(minutes, entry.endMinutes))]
           ELSE [entry EXCEPT !.endMinutes = Min(DayEnd, Max(minutes, entry.startMinutes))]
resizeEntry(entry, entryId, edge, minutes) ==
  IF entry.id # entryId
    THEN entry
    ELSE IF edge = "top"
           THEN LET newStart == Min(minutes, entry.endMinutes - MIN_RESIZE_MINUTES)
                IN  [entry EXCEPT !.startMinutes = Max(DayStart, newStart)]
           ELSE LET newEnd == Max(minutes, entry.startMinutes + MIN_RESIZE_MINUTES)
                IN  [entry EXCEPT !.endMinutes = Min(DayEnd, newEnd)]

\* The buckets after one moving tick of the listener that closed over
\* (dm, days), applied to the current entriesMap.
MoveTick(map, dm, days, y, currentDayIndex, hh) ==
  LET deltaMinutes == DeltaMinutes(y, dm.offsetY, hh)
      movingIds == DOMAIN dm.startMinutesMap
      apply(e) == applyDelta(e, dm.startMinutesMap, deltaMinutes)
      sourceDayEntries == days[dm.dayIndex].entries
  IN  IF currentDayIndex = dm.dayIndex
        THEN handleEntriesChange(map, days[dm.dayIndex].dateStr,
                                 [i \in 1 .. Len(sourceDayEntries) |-> apply(sourceDayEntries[i])])
        ELSE LET targetDayEntries == days[currentDayIndex].entries
                 remaining == SelectSeq(sourceDayEntries, LAMBDA e : e.id \notin movingIds)
                 matched == SelectSeq(sourceDayEntries, LAMBDA e : e.id \in movingIds)
                 movedEntries == [i \in 1 .. Len(matched) |-> apply(matched[i])]
             IN  handleEntriesChange(
                   handleEntriesChange(map, days[dm.dayIndex].dateStr, remaining),
                   days[currentDayIndex].dateStr, targetDayEntries \o movedEntries)

\* Timeline.tsx handleMouseMove: a pointer move over the window. The
\* listener reads the dragMode and days of the render it was registered in
\* (view) and updates the state through setDragMode / onEntriesChange; the
\* effect of a render without a session registers no listener.
MouseMove(y, col) ==
  /\ events < MaxEvents
  /\ LET dm == view.dragMode
         days == view.days
     IN  \/ /\ dm.type = "none"
            /\ lastOp' = "pointerMove"
            /\ notified' = {}
            /\ UNCHANGED << entriesMap, dragMode >>
         \/ /\ dm.type = "creating"
            /\ dragMode' = IF dragMode.type = "creating"
                             THEN [dragMode EXCEPT !.currentY = y]
                             ELSE dragMode
            /\ lastOp' = "createTick"
            /\ notified' = {}
            /\ UNCHANGED entriesMap
         \/ /\ dm.type = "moving"
            /\ entriesMap' = MoveTick(entriesMap, dm, days, y, col, hourHeight)
            /\ dragMode' = IF col # dm.dayIndex /\ dragMode.type = "moving"
                             THEN [dragMode EXCEPT !.dayIndex = col]
                             ELSE dragMode
            /\ lastOp' = "moveTick"
            /\ notified' = {days[dm.dayIndex].dateStr, days[col].dateStr}
         \/ /\ dm.type = "resizing"
            /\ LET minutes == snapToGrid(pixelsToMinutes(y, hourHeight))
                   resize(e) == resizeEntry(e, dm.entryId, dm.edge, minutes)
               IN  entriesMap' =
                     handleEntriesChange(entriesMap, days[dm.dayIndex].dateStr,
                                         [i \in 1 .. Len(days[dm.dayIndex].entries) |->
                                            resize(days[dm.dayIndex].entries[i])])
            /\ lastOp' = IF dm.edge = "top" THEN "resizeTopTick" ELSE "resizeBottomTick"
            /\ notified' = {days[dm.dayIndex].dateStr}
            /\ UNCHANGED dragMode
  /\ events' = events + 1
  /\ UNCHANGED << selectedDate, selectedIds, editingId, colorMenu, hourHeight, view,
                  idCounter, atPress >>

\* The entry a release of a creating session commits, as a sequence of zero
\* or one entries (Timeline.tsx handleMouseUp).
CreatedEntries(dm, hh, id) ==
  LET minY == Min(dm.startY, dm.currentY)
      maxY == Max(dm.startY, dm.currentY)
      startMin == snapToGrid(pixelsToMinutes(minY, hh))
      endMin == snapToGrid(pixelsToMinutes(maxY, hh))
  IN  IF maxY - minY > CREATE_THRESHOLD_PX /\ endMin > startMin
        THEN << Entry(id, "New Block", Max(DayStart, startMin), Min(DayEnd, endMin),
                      DEFAULT_COLOR, FALSE) >>
        ELSE << >>

\* handleMouseUp: the session kept when it was not a creating one.
ReleasedDragModeKept(dm) == IF dm.type = "creating" THEN DragNone ELSE dm
\* handleMouseUp: setDragMode({ type: 'none' }).
ReleasedDragMode(dm) == DragNone

\* Timeline.tsx handleMouseUp: the window mouseup listener. mouseup is a
\* discrete event: React renders and re-runs the listeners effect before
\* the next event, so the view is current afterwards.
MouseUp ==
  /\ view.dragMode.type # "none"
  /\ events < MaxEvents
  /\ LET dm == view.dragMode
         created == IF dm.type = "creating"
                      THEN CreatedEntries(dm, hourHeight, generateId(idCounter + 1))
                      ELSE << >>
     IN  IF created # << >>
           THEN /\ entriesMap' = handleEntriesChange(entriesMap, view.days[dm.dayIndex].dateStr,
                                                      view.days[dm.dayIndex].entries \o created)
                /\ editingId' = created[1].id
                /\ idCounter' = idCounter + 1
                /\ notified' = {view.days[dm.dayIndex].dateStr}
           ELSE /\ notified' = {}
                /\ UNCHANGED << entriesMap, editingId, idCounter >>
  /\ dragMode' = ReleasedDragMode(view.dragMode)
  /\ view' = ViewOf(dragMode', entriesMap')
  /\ events' = events + 1
  /\ lastOp' = IF idCounter' # idCounter THEN "createCommit" ELSE "mouseUp"
  /\ UNCHANGED << selectedDate, selectedIds, colorMenu, hourHeight, atPress >>

\* Timeline.tsx handleContextMenu: right-click on block i of day d.
ContextMenu(d, i) ==
  /\ dragMode.type = "none"
  /\ events < MaxEvents
  /\ i \in 1 .. Len(dayColumns[d].entries)
  /\ LET entryId == dayColumns[d].entries[i].id
     IN  /\ selectedIds' = IF entryId \notin selectedIds THEN {entryId} ELSE selectedIds
         /\ colorMenu' = OpenMenu(entryId, d)
  /\ view' = ViewOf(dragMode, entriesMap)
  /\ events' = events + 1
  /\ lastOp' = "contextMenu"
  /\ notified' = {}
  /\ UNCHANGED << entriesMap, selectedDate, dragMode, editingId, hourHeight, idCounter,
                  atPress >>

\* The ids a menu action works on: the selection if the clicked entry is in
\* it, the clicked entry alone otherwise (handleDelete, handleSendToToday).
MenuIds(selected, entryId) ==
  IF Cardinality(selected) > 0 /\ entryId \in selected THEN selected ELSE {entryId}

\* The loop "for (const day of days)" of handleDelete, of handleSendToToday
\* and of the Delete key: every day of the render that holds one of the ids
\* is replaced, through onEntriesChange, by its entries without them.
deleteFromDays(map, days, ids) ==
  [dateStr \in DOMAIN map |->
     IF \E col \in DOMAIN days :
          days[col].dateStr = dateStr /\ IdsOf(days[col].entries) \cap ids # {}
       THEN LET col == CHOOSE c \in DOMAIN days : days[c].dateStr = dateStr
            IN  SelectSeq(days[col].entries, LAMBDA e : e.id \notin ids)
       ELSE map[dateStr]]

\* The date keys that loop passes to onEntriesChange.
NotifiedDays(days, ids) ==
  {days[col].dateStr : col \in {c \in DOMAIN days : IdsOf(days[c].entries) \cap ids # {}}}

\* Timeline.tsx handleDelete, called from the menu with colorMenu.entryId.
MenuDelete ==
  /\ colorMenu.open
  /\ dragMode.type = "none"
  /\ events < MaxEvents
  /\ entriesMap' = deleteFromDays(entriesMap, dayColumns,
                                  MenuIds(selectedIds, colorMenu.entryId))
  /\ selectedIds' = {}
  /\ colorMenu' = NoMenu
  /\ view' = ViewOf(dragMode, entriesMap')
  /\ events' = events + 1
  /\ lastOp' = "menuDelete"
  /\ notified' = NotifiedDays(dayColumns, MenuIds(selectedIds, colorMenu.entryId))
  /\ UNCHANGED << selectedDate, dragMode, editingId, hourHeight, idCounter, atPress >>

\* entriesToMove of handleSendToToday: the matched entries of the first n
\* columns, in column order.
RECURSIVE EntriesToMove(_, _, _)
EntriesToMove(days, ids, n) ==
  IF n = 0
    THEN << >>
    ELSE EntriesToMove(days, ids, n - 1)
           \o SelectSeq(days[n - 1].entries, LAMBDA e : e.id \in ids)

\* The todayEntries prop of Timeline: the today bucket of the render.
todayEntriesProp(map) == map[todayStr]

\* Timeline.tsx handleSendToToday. The menu offers it only when
\* days[colorMenu.dayIndex].dateStr differs from todayStr.
SendToToday ==
  /\ colorMenu.open
  /\ dayColumns[colorMenu.dayIndex].dateStr # todayStr
  /\ dragMode.type = "none"
  /\ events < MaxEvents
  /\ LET idsToMove == MenuIds(selectedIds, colorMenu.entryId)
         entriesToMove == EntriesToMove(dayColumns, idsToMove, NumDays)
     IN  entriesMap' =
           handleEntriesChange(deleteFromDays(entriesMap, dayColumns, idsToMove),
                               todayStr, todayEntriesProp(entriesMap) \o entriesToMove)
  /\ selectedIds' = {}
  /\ colorMenu' = NoMenu
  /\ view' = ViewOf(dragMode, entriesMap')
  /\ events' = events + 1
  /\ lastOp' = "sendToToday"
  /\ notified' = NotifiedDays(dayColumns, MenuIds(selectedIds, colorMenu.entryId))
                    \cup {todayStr}
  /\ UNCHANGED << selectedDate, dragMode, editingId, hourHeight, idCounter, atPress >>

\* A palette colour of the menu other than the default one, and a title the
\* user types.
PaletteColor == "#22c55e"
TypedTitle == "x"

\* idsToUpdate as the clicked entry alone.
ColorIdsClicked(selected, entryId) == {entryId}
\* handleColorSelect: idsToUpdate, the selection unless it is empty.
ColorIds(selected, entryId) == IF Cardinality(selected) > 0 THEN selected ELSE {entryId}

\* handleColorSelect loop: every day of the render that holds one of the ids
\* is replaced by its entries with the colour set on the matching ones.
colorDays(map, days, ids, color) ==
  [dateStr \in DOMAIN map |->
     IF \E col \in DOMAIN days :
          days[col].dateStr = dateStr /\ IdsOf(days[col].entries) \cap ids # {}
       THEN LET col == CHOOSE c \in DOMAIN days : days[c].dateStr = dateStr
                entries == days[col].entries
            IN  [i \in 1 .. Len(entries) |->
                   IF entries[i].id \in ids
                     THEN [entries[i] EXCEPT !.color = color]
                     ELSE entries[i]]
       ELSE map[dateStr]]

\* Timeline.tsx handleColorSelect.
ColorSelect(color) ==
  /\ colorMenu.open
  /\ dragMode.type = "none"
  /\ events < MaxEvents
  /\ LET idsToUpdate == ColorIds(selectedIds, colorMenu.entryId)
     IN  /\ entriesMap' = colorDays(entriesMap, dayColumns, idsToUpdate, color)
         /\ notified' = NotifiedDays(dayColumns, idsToUpdate)
  /\ colorMenu' = NoMenu
  /\ view' = ViewOf(dragMode, entriesMap')
  /\ events' = events + 1
  /\ lastOp' = "colorSelect"
  /\ UNCHANGED << selectedDate, dragMode, selectedIds, editingId, hourHeight, idCounter,
                  atPress >>

\* dayEntries.map(entry => entry.id === entryId ? {...entry, title} : entry)
setTitle(dayEntries, entryId, title) ==
  [i \in 1 .. Len(dayEntries) |->
     IF dayEntries[i].id = entryId THEN [dayEntries[i] EXCEPT !.title = title]
                                   ELSE dayEntries[i]]

\* Timeline.tsx handleTitleChange: the title input of the entry being edited
\* in column d changes to title.
TitleChange(d, title) ==
  /\ dragMode.type = "none"
  /\ events < MaxEvents
  /\ editingId \in IdsOf(dayColumns[d].entries)
  /\ \E e \in Range(dayColumns[d].entries) : e.id = editingId /\ e.title # title
  /\ entriesMap' = handleEntriesChange(entriesMap, dayColumns[d].dateStr,
                                       setTitle(dayColumns[d].entries, editingId, title))
  /\ notified' = {dayColumns[d].dateStr}
  /\ view' = ViewOf(dragMode, entriesMap')
  /\ events' = events + 1
  /\ lastOp' = "titleChange"
  /\ UNCHANGED << selectedDate, dragMode, selectedIds, editingId, colorMenu, hourHeight,
                  idCounter, atPress >>

\* TimeBlock onTitleBlur (blur or Enter in the title input): setEditingId(null).
TitleBlur ==
  /\ dragMode.type = "none"
  /\ events < MaxEvents
  /\ editingId # ""
  /\ editingId' = ""
  /\ notified' = {}
  /\ view' = ViewOf(dragMode, entriesMap)
  /\ events' = events + 1
  /\ lastOp' = "titleBlur"
  /\ UNCHANGED << entriesMap, selectedDate, dragMode, selectedIds, colorMenu, hourHeight,
                  idCounter, atPress >>

\* dayEntries.map(entry => entry.id === entryId ? {...entry, done: !entry.done} : entry)
toggleDone(dayEntries, entryId) ==
  [i \in 1 .. Len(dayEntries) |->
     IF dayEntries[i].id = entryId THEN [dayEntries[i] EXCEPT !.done = ~dayEntries[i].done]
                                   ELSE dayEntries[i]]

\* Timeline.tsx handleToggleDone: click on the checkbox of block i of day d
\* (its mousedown does not reach the block or the window listeners).
ToggleDone(d, i) ==
  /\ dragMode.type = "none"
  /\ events < MaxEvents
  /\ i \in 1 .. Len(dayColumns[d].entries)
  /\ entriesMap' = handleEntriesChange(entriesMap, dayColumns[d].dateStr,
                                       toggleDone(dayColumns[d].entries,
                                                  dayColumns[d].entries[i].id))
  /\ notified' = {dayColumns[d].dateStr}
  /\ view' = ViewOf(dragMode, entriesMap')
  /\ events' = events + 1
  /\ lastOp' = "toggleDone"
  /\ UNCHANGED << selectedDate, dragMode, selectedIds, editingId, colorMenu, hourHeight,
                  idCounter, atPress >>

\* Timeline.tsx handleDuplicate, called from the menu with colorMenu.entryId
\* and colorMenu.dayIndex; find() takes the first entry with the id.
Duplicate ==
  /\ colorMenu.open
  /\ dragMode.type = "none"
  /\ events < MaxEvents
  /\ LET dayEntries == dayColumns[colorMenu.dayIndex].entries
         found == {i \in 1 .. Len(dayEntries) : dayEntries[i].id = colorMenu.entryId}
     IN  IF found = {}
           THEN /\ notified' = {}
                /\ UNCHANGED << entriesMap, selectedIds, colorMenu, idCounter >>
           ELSE LET entry == dayEntries[CHOOSE i \in found : \A j \in found : i <= j]
                    newEntry == [entry EXCEPT !.id = generateId(idCounter + 1)]
                IN  /\ entriesMap' =
                         handleEntriesChange(entriesMap,
                                             dayColumns[colorMenu.dayIndex].dateStr,
                                             dayEntries \o << newEntry >>)
                    /\ notified' = {dayColumns[colorMenu.dayIndex].dateStr}
                    /\ selectedIds' = {newEntry.id}
                    /\ colorMenu' = NoMenu
                    /\ idCounter' = idCounter + 1
  /\ view' = ViewOf(dragMode, entriesMap')
  /\ events' = events + 1
  /\ lastOp' = "duplicate"
  /\ UNCHANGED << selectedDate, dragMode, editingId, hourHeight, atPress >>

\* Timeline.tsx global keydown listener, Delete key. The listener is the one
\* registered by the last committed render: its days are those of view.
KeyDelete ==
  /\ events < MaxEvents
  /\ IF Cardinality(selectedIds) > 0 /\ editingId = ""
       THEN /\ entriesMap' = deleteFromDays(entriesMap, view.days, selectedIds)
            /\ selectedIds' = {}
            /\ notified' = NotifiedDays(view.days, selectedIds)
       ELSE /\ notified' = {}
            /\ UNCHANGED << entriesMap, selectedIds >>
  /\ view' = ViewOf(dragMode, entriesMap')
  /\ events' = events + 1
  /\ lastOp' = "keyDelete"
  /\ UNCHANGED << selectedDate, dragMode, editingId, colorMenu, hourHeight, idCounter,
                  atPress >>

\* An Escape that only clears the selection.
KeyEscapeSelectionOnly ==
  /\ events < MaxEvents
  /\ selectedIds' = {}
  /\ view' = ViewOf(dragMode, entriesMap)
  /\ events' = events + 1
  /\ lastOp' = "keyEscape"
  /\ notified' = {}
  /\ UNCHANGED << entriesMap, selectedDate, dragMode, editingId, colorMenu, hourHeight,
                  idCounter, atPress >>
\* Timeline.tsx global keydown listener, Escape key.
KeyEscape ==
  /\ events < MaxEvents
  /\ selectedIds' = {}
  /\ editingId' = ""
  /\ colorMenu' = NoMenu
  /\ view' = ViewOf(dragMode, entriesMap)
  /\ events' = events + 1
  /\ lastOp' = "keyEscape"
  /\ notified' = {}
  /\ UNCHANGED << entriesMap, selectedDate, dragMode, hourHeight, idCounter, atPress >>

\* TimeBlock onTitleDoubleClick after the two press/release pairs of the
\* double click on block i of day d: the first press selects the block as
\* handleBlockMouseDown does, no pointer move happens, then editing starts.
TitleDoubleClick(d, i) ==
  /\ dragMode.type = "none"
  /\ events < MaxEvents
  /\ i \in 1 .. Len(dayColumns[d].entries)
  /\ LET entryId == dayColumns[d].entries[i].id
     IN  /\ selectedIds' = IF entryId \in selectedIds THEN selectedIds ELSE {entryId}
         /\ editingId' = entryId
  /\ colorMenu' = NoMenu
  /\ view' = ViewOf(dragMode, entriesMap)
  /\ events' = events + 1
  /\ lastOp' = "titleDoubleClick"
  /\ notified' = {}
  /\ UNCHANGED << entriesMap, selectedDate, dragMode, hourHeight, idCounter, atPress >>

\* App.tsx goToPrevDay / goToNextDay (dir = -1 / 1) and the load effect that
\* follows, taken when no save is pending, so that the buckets the effect
\* reloads are the ones in force. The press on the header button closes an
\* open menu (ColorMenu window mousedown listener) and ends a title edit
\* (TimeBlock input onBlur); the Timeline keeps its selection.
Navigate(dir) ==
  /\ dragMode.type = "none"
  /\ events < MaxEvents
  /\ selectedDate + dir \in Dates
  /\ selectedDate + dir + NumDays - 1 \in Dates
  /\ selectedDate' = selectedDate + dir
  /\ colorMenu' = NoMenu
  /\ editingId' = ""
  /\ view' = [dragMode |-> dragMode, days |-> DayColumns(entriesMap, selectedDate')]
  /\ events' = events + 1
  /\ lastOp' = "navigate"
  /\ notified' = {}
  /\ UNCHANGED << entriesMap, dragMode, selectedIds, hourHeight, idCounter, atPress >>

\* React commits the pending render and re-runs the listeners effect
\* (Timeline.tsx useEffect with deps [dragMode, days, ...]).
Render ==
  /\ view # ViewOf(dragMode, entriesMap)
  /\ view' = ViewOf(dragMode, entriesMap)
  /\ lastOp' = "render"
  /\ UNCHANGED << entriesMap, selectedDate, dragMode, selectedIds, editingId, colorMenu,
                  hourHeight, idCounter, events, atPress, notified >>

TimelineNext ==
  \/ \E y \in PointerYs, col \in Days, ctrl \in BOOLEAN : TimelineMouseDown(y, col, ctrl)
  \/ \E d \in Days : \E i \in 1 .. Len(dayColumns[d].entries) :
       \E y \in PressYs(dayColumns[d].entries[i]), ctrl \in BOOLEAN :
         BlockMouseDown(d, i, y, ctrl)
  \/ \E d \in Days : \E i \in 1 .. Len(dayColumns[d].entries) : \E edge \in {"top", "bottom"} :
       ResizeStart(d, i, edge)
  \/ \E y \in PointerYs, col \in Days : MouseMove(y, col)
  \/ MouseUp
  \/ \E d \in Days : \E i \in 1 .. Len(dayColumns[d].entries) : ContextMenu(d, i)
  \/ MenuDelete
  \/ SendToToday
  \/ KeyDelete
  \/ KeyEscape
  \/ \E d \in Days : \E i \in 1 .. Len(dayColumns[d].entries) : TitleDoubleClick(d, i)
  \/ \E dir \in {-1, 1} : Navigate(dir)
  \/ ColorSelect(PaletteColor)
  \/ \E d \in Days : TitleChange(d, TypedTitle)
  \/ TitleBlur
  \/ \E d \in Days : \E i \in 1 .. Len(dayColumns[d].entries) : ToggleDone(d, i)
  \/ Duplicate
  \/ Render

\* ------------------------------------------------- resizing stored days
\* Today buckets the app finds stored at start: one entry, the three pool
\* entries, and the bucket a send to today of b and c (b already in today)
\* wrote in an earlier run, which holds b twice.
ResizeStored ==
  { << Pool[1] >>, << Pool[1], Pool[2], Pool[3] >>, << Pool[2], Pool[2], Pool[3] >> }

InitResize ==
  /\ \E bucket \in ResizeStored :
       entriesMap = [d \in Dates |-> IF d = todayStr THEN bucket ELSE << >>]
  /\ selectedDate = todayStr
  /\ dragMode = DragNone
  /\ selectedIds = {}
  /\ editingId = ""
  /\ colorMenu = NoMenu
  /\ hourHeight \in HourHeights
  /\ view = ViewOf(dragMode, entriesMap)
  /\ idCounter = 0
  /\ events = 0
  /\ lastOp = "init"
  /\ atPress = PressRecord([x \in {} |-> {}], FALSE, 0)
  /\ notified = {}

\* Selecting with ctrl, grabbing an edge, pointer moves, the release, and
\* ticking a block off.
ResizeNext ==
  \/ \E d \in Days : \E i \in 1 .. Len(dayColumns[d].entries) : ToggleDone(d, i)
  \/ \E d \in Days : \E i \in 1 .. Len(dayColumns[d].entries) :
       \E y \in PressYs(dayColumns[d].entries[i]) : BlockMouseDown(d, i, y, TRUE)
  \/ \E d \in Days : \E i \in 1 .. Len(dayColumns[d].entries) : \E edge \in {"top", "bottom"} :
       ResizeStart(d, i, edge)
  \/ \E y \in PointerYs, col \in Days : MouseMove(y, col)
  \/ MouseUp
  \/ Render

\* ------------------------------------------------------ moving sessions
\* Presses on blocks, pointer moves (over the sampled rows, and back on
\* the row of the press), the release and the renders.
MoveNext ==
  \/ \E d \in Days : \E i \in 1 .. Len(dayColumns[d].entries) : \E ctrl \in BOOLEAN :
       \E y \in PressYs(dayColumns[d].entries[i]) : BlockMouseDown(d, i, y, ctrl)
  \/ \E y \in PointerYs, col \in Days : MouseMove(y, col)
  \/ \E col \in Days : dragMode.type = "moving" /\ MouseMove(dragMode.offsetY, col)
  \/ MouseUp
  \/ Render

\* ------------------------------------------ overlap layout as a machine
\* Start and end times of the layout inputs (half-hour steps from 09:00).
LayoutTimes == {540, 570, 600, 630}

\* << startMinutes, endMinutes >> with startMinutes < endMinutes.
LayoutRanges == {p \in LayoutTimes \X LayoutTimes : p[1] < p[2]}

\* The input list of n entries with the ranges chosen by se; ids by position,
\* pairwise distinct.
LayoutInput(n, se) ==
  [i \in 1 .. n |->
     Entry("e" \o ToString(i), "t", se[i][1], se[i][2], DEFAULT_COLOR, FALSE)]

LayoutIdle ==
  /\ layoutEntries = << >>
  /\ layoutResult = [x \in {} |-> 0]
  /\ layoutPc = "idle"

InitLayout ==
  /\ \E n \in 0 .. MaxLayoutEntries :
       \E se \in [1 .. n -> LayoutRanges] : layoutEntries = LayoutInput(n, se)
  /\ layoutResult = [x \in {} |-> 0]
  /\ layoutPc = "input"

\* Timeline.tsx perDayData: const layoutMap = computeOverlapLayout(layoutEntries)
ComputeLayout ==
  /\ layoutPc = "input"
  /\ layoutResult' = computeOverlapLayout(layoutEntries)
  /\ layoutPc' = "done"
  /\ UNCHANGED layoutEntries

TimelineIdle ==
  /\ entriesMap = [d \in Dates |-> << >>]
  /\ selectedDate = todayStr
  /\ dragMode = DragNone
  /\ selectedIds = {}
  /\ editingId = ""
  /\ colorMenu = NoMenu
  /\ hourHeight = 60
  /\ view = ViewOf(dragMode, entriesMap)
  /\ idCounter = 0
  /\ events = 0
  /\ lastOp = "init"
  /\ atPress = PressRecord([x \in {} |-> {}], FALSE, 0)
  /\ notified = {}

\* ---------------------------------------------------- codec as a machine
\* Titles: empty, plain, containing " | ", containing markdown markup.
CodecTitles ==
  { << >>, << "a" >>, << "x", " ", "|", " ", "y" >>, << "*", "*", "b", "*", "*" >> }

\* << startMinutes, endMinutes >>: two entries with one start, midnight, and
\* the last minute of the day.
CodecTimes == { << 540, 570 >>, << 540, 600 >>, << 0, 1439 >> }

\* << color, done >>
CodecMarks ==
  { << FallbackColor, FALSE >>,
    << << "#", "E", "F", "4", "4", "4", "4" >>, TRUE >>,
    << << "#", "2", "2", "c", "5", "5", "e" >>, FALSE >> }

\* date.toLocaleDateString('en-US', {weekday, year, month, day}) of the date.
CodecDateStr == << "M", "o", "n", ",", " ", "J", "a", "n", " ", "1", "5" >>

\* The entry list of n entries with the fields chosen by c; ids by position.
CodecInput(n, c) ==
  [i \in 1 .. n |->
     Entry(<< "i" >> \o Decimal(i), c[i][1], c[i][2][1], c[i][2][2],
           c[i][3][1], c[i][3][2])]

CodecIdle ==
  /\ codecEntries = << >>
  /\ codecMd = << >>
  /\ codecParsed = << >>
  /\ codecPc = "idle"

InitCodec ==
  /\ \E n \in 0 .. MaxCodecEntries :
       \E c \in [1 .. n -> CodecTitles \X CodecTimes \X CodecMarks] :
         codecEntries = CodecInput(n, c)
  /\ codecMd = << >>
  /\ codecParsed = << >>
  /\ codecPc = "input"

\* App.tsx saveForDate timer body: const md = entriesToMarkdown(entries, date)
Serialize ==
  /\ codecPc = "input"
  /\ codecMd' = entriesToMarkdown(codecEntries, CodecDateStr)
  /\ codecPc' = "serialized"
  /\ UNCHANGED << codecEntries, codecParsed >>

\* App.tsx loadAll: entries = markdownToEntries(md)
Deserialize ==
  /\ codecPc = "serialized"
  /\ codecParsed' = markdownToEntries(codecMd)
  /\ codecPc' = "parsed"
  /\ UNCHANGED << codecEntries, codecMd >>

\* ------------------------------------- loading a hand-edited day document
\* The lines a stored document is put together from: two sub-headings,
\* metadata lines, a heading that is no entry, a sub-heading with a one-digit
\* hour, one with an empty title, free text and the empty line.
HeadingLine(s, e, title) ==
  HeadingMark \o formatTime24(s) \o TimeSep \o formatTime24(e) \o TitleSep \o title
DocLinePool ==
  << HeadingLine(540, 600, << "A" >>),
     HeadingLine(600, 660, << "B" >>),
     ColorKey \o << "#", "e", "f", "4", "4", "4", "4" >>,
     IdKey \o << "x" >>,
     DoneMark,
     HeadingMark \o << "N" >>,
     HeadingMark \o << "9", ":", "0", "0" >> \o TimeSep \o formatTime24(600)
       \o TitleSep \o << "A" >>,
     HeadingLine(540, 600, << >>),
     << "h", "i" >>,
     << >> >>

\* The text of n lines: line k is DocLinePool[ls[k]], ended by bs[k] if
\* another line follows.
RECURSIVE DocText(_, _, _)
DocText(n, ls, bs) ==
  IF n = 0 THEN << >>
  ELSE IF n = 1 THEN DocLinePool[ls[1]]
  ELSE DocText(n - 1, ls, bs) \o << bs[n - 1] >> \o DocLinePool[ls[n]]

\* A day document on disk, or none (loadDay returns null).
InitLoad ==
  /\ \E n \in 0 .. MaxDocLines :
       \E ls \in [1 .. n -> 1 .. Len(DocLinePool)] :
         \E bs \in [1 .. (n - 1) -> LineTerminators] :
           codecMd = DocText(n, ls, bs)
  /\ codecPc \in {"stored", "missing"}
  /\ codecPc = "missing" => codecMd = << >>
  /\ codecEntries = << >>
  /\ codecParsed = << >>

\* App.tsx loadAll for one date: let entries = []; const md = await
\* loadDay(dateStr); if (md) entries = markdownToEntries(md).
LoadDay ==
  /\ codecPc \in {"stored", "missing"}
  /\ codecParsed' = IF codecPc = "stored" /\ codecMd # << >>
                      THEN markdownToEntries(codecMd)
                      ELSE << >>
  /\ codecPc' = IF codecPc = "stored" THEN "loaded" ELSE "loadedMissing"
  /\ UNCHANGED << codecEntries, codecMd >>

\* ---------------------------------------------- save pipeline as a machine
\* The entry lists a commit can carry.
SaveEntryLists == { << >>, << Pool[1] >> }

\* A snapshot is the entry list captured by the timer closure; seq is the
\* ordinal of the handleEntriesChange call that captured it.
Snapshot(seq, entries) == [seq |-> seq, entries |-> entries]

\* Map.set and Map.delete.
MapSet(map, key, value) ==
  [k \in (DOMAIN map) \cup {key} |-> IF k = key THEN value ELSE map[k]]
MapDelete(map, key) == [k \in (DOMAIN map) \ {key} |-> map[k]]
EmptyMap == [k \in {} |-> 0]

\* ------------------------------------ loading and saving as one machine
MaxEdits == 2
MaxNavigations == 2

\* The views the header can select: dayCount 1 or 2, leftmost day any date.
VisibleSets ==
  {{sel + i : i \in 0 .. (n - 1)} : sel \in Dates, n \in 1 .. 2} \cap SUBSET Dates

\* The block the k-th edit adds. Documents hold no ids: entries are written
\* here as a document holds them.
EditEntry(k) == Entry("", "e" \o ToString(k), 540, 600, DEFAULT_COLOR, FALSE)

\* entriesMap[dateStr] || [].
BucketOrEmpty(map, dateStr) == IF dateStr \in DOMAIN map THEN map[dateStr] ELSE << >>

\* App.tsx loadAll: setEntriesMap(newMap), the state becomes the map read.
SetEntriesMap(prev, newMap) == newMap

\* The app at rest: today on screen and loaded, nothing stored, nothing pending.
ReloadIdle ==
  /\ loadedMap = [d \in {todayStr} |-> << >>]
  /\ visibleDateStrs = {todayStr}
  /\ pendingSave = EmptyMap
  /\ mainQueue = << >>
  /\ loadReplies = << >>
  /\ disk = [d \in Dates |-> << >>]
  /\ editLog = << >>

\* App.tsx handleEntriesChange from the Timeline, for a day on screen: the
\* bucket gets one more block, saveForDate re-arms the debounce timer of
\* the date with the new entries.
EditBucket(dateStr) ==
  /\ Len(editLog) < MaxEdits
  /\ dateStr \in visibleDateStrs
  /\ LET entries == Append(BucketOrEmpty(loadedMap, dateStr), EditEntry(Len(editLog) + 1))
     IN  /\ loadedMap' = MapSet(loadedMap, dateStr, entries)
         /\ pendingSave' = MapSet(pendingSave, dateStr, entries)
  /\ editLog' = Append(editLog, dateStr)
  /\ UNCHANGED << visibleDateStrs, mainQueue, loadReplies, disk >>

\* App.tsx saveForDate timer callback, 300 ms after the last edit of the
\* date: saveDay(dateStr, md) is invoked, the handle is deleted.
SaveTimerFire(dateStr) ==
  /\ dateStr \in DOMAIN pendingSave
  /\ mainQueue' = Append(mainQueue, [type |-> "save-day", dateStr |-> dateStr,
                                     entries |-> pendingSave[dateStr]])
  /\ pendingSave' = MapDelete(pendingSave, dateStr)
  /\ UNCHANGED << loadedMap, visibleDateStrs, loadReplies, disk, editLog >>

\* Previous/next day or another day count: visibleDateStrs changes and the
\* load effect invokes loadDay for every visible date and for today. The
\* edits made so far are noted with the load.
ChangeVisibleDates(dates) ==
  /\ Cardinality({i \in 1 .. Len(mainQueue) : mainQueue[i].type = "load-day"})
       + Len(loadReplies) < MaxNavigations
  /\ dates # visibleDateStrs
  /\ visibleDateStrs' = dates
  /\ mainQueue' = Append(mainQueue, [type |-> "load-day", dates |-> dates \cup {todayStr},
                                     editsBefore |-> Len(editLog)])
  /\ UNCHANGED << loadedMap, pendingSave, loadReplies, disk, editLog >>

\* main.ts ipcMain.handle('save-day') and ipcMain.handle('load-day'): the
\* invocations of the renderer are handled in the order they were sent;
\* the loadDay calls of one loadAll are sent together.
MainHandle ==
  /\ mainQueue # << >>
  /\ LET msg == Head(mainQueue)
     IN  IF msg.type = "save-day"
           THEN /\ disk' = [disk EXCEPT ![msg.dateStr] = msg.entries]
                /\ UNCHANGED loadReplies
           ELSE /\ loadReplies' = Append(loadReplies,
                                         [newMap |-> [d \in msg.dates |-> disk[d]],
                                          editsBefore |-> msg.editsBefore])
                /\ UNCHANGED disk
  /\ mainQueue' = Tail(mainQueue)
  /\ UNCHANGED << loadedMap, visibleDateStrs, pendingSave, editLog >>

\* App.tsx loadAll after await Promise.all(loadPromises): setEntriesMap(newMap).
LoadAllDone ==
  /\ loadReplies # << >>
  /\ loadedMap' = SetEntriesMap(loadedMap, Head(loadReplies).newMap)
  /\ loadReplies' = Tail(loadReplies)
  /\ UNCHANGED << visibleDateStrs, pendingSave, mainQueue, disk, editLog >>

ReloadNext ==
  \/ \E dateStr \in Dates : EditBucket(dateStr)
  \/ \E dateStr \in Dates : SaveTimerFire(dateStr)
  \/ \E dates \in VisibleSets : ChangeVisibleDates(dates)
  \/ MainHandle
  \/ LoadAllDone

SaveIdle ==
  /\ ReloadIdle
  /\ hasElectronAPI = TRUE
  /\ commitCount = 0
  /\ saveTimeouts = EmptyMap
  /\ timers = EmptyMap
  /\ ipcChannel = << >>
  /\ stored = EmptyMap
  /\ writeLog = [d \in Days |-> << >>]
  /\ commitLog = [d \in Days |-> << >>]
  /\ editAge = [d \in Days |-> SAVE_DEBOUNCE_MS]

InitSave ==
  /\ ReloadIdle
  /\ hasElectronAPI \in BOOLEAN
  /\ commitCount = 0
  /\ saveTimeouts = EmptyMap
  /\ timers = EmptyMap
  /\ ipcChannel = << >>
  /\ stored = EmptyMap
  /\ writeLog = [d \in Days |-> << >>]
  /\ commitLog = [d \in Days |-> << >>]
  /\ editAge = [d \in Days |-> SAVE_DEBOUNCE_MS]

\* setTimeout(callback, 300): a live timer whose callback holds dateStr and
\* the entries of the call.
NewTimer(dateStr, snapshot) ==
  [dateStr |-> dateStr, snapshot |-> snapshot, remaining |-> SAVE_DEBOUNCE_MS]

\* A clearTimeout that leaves the timer running.
ClearTimeoutNoop(live, handles, dateStr) == live

\* A clearTimeout that clears every pending save.
ClearTimeoutAll(live, handles, dateStr) == EmptyMap

\* const existing = saveTimeouts.current.get(dateStr);
\* if (existing) clearTimeout(existing): the handle of a timer that has fired
\* is never in the map, clearing removes the live timer.
ClearTimeout(live, handles, dateStr) ==
  IF dateStr \in DOMAIN handles THEN MapDelete(live, handles[dateStr]) ELSE live

\* saveForDate: clear the pending timer of the date, arm a new one that holds
\* the entries of this call; the result is the live timers and the handles.
saveForDate(live, handles, dateStr, handle, snapshot) ==
  [timers |-> MapSet(ClearTimeout(live, handles, dateStr), handle,
                     NewTimer(dateStr, snapshot)),
   saveTimeouts |-> MapSet(handles, dateStr, handle)]

\* handleEntriesChange as far as saving goes; the handle of the new timer is
\* the ordinal of the commit.
Commit(dateStr, entries) ==
  /\ commitCount < MaxCommits
  /\ commitCount' = commitCount + 1
  /\ LET saved == saveForDate(timers, saveTimeouts, dateStr, commitCount + 1,
                              Snapshot(commitCount + 1, entries))
     IN  /\ timers' = saved.timers
         /\ saveTimeouts' = saved.saveTimeouts
  /\ commitLog' = [commitLog EXCEPT ![dateStr] =
                     Append(@, [seq |-> commitCount + 1,
                                entries |-> entries,
                                recent |-> editAge[dateStr] < SAVE_DEBOUNCE_MS,
                                pending |-> \E h \in DOMAIN timers :
                                              timers[h].dateStr = dateStr])]
  /\ editAge' = [editAge EXCEPT ![dateStr] = 0]
  /\ UNCHANGED << hasElectronAPI, ipcChannel, stored, writeLog >>

\* Time passes; no timer is overdue.
Tick ==
  /\ DOMAIN timers # {}
  /\ \A h \in DOMAIN timers : timers[h].remaining > 0
  /\ timers' = [h \in DOMAIN timers |->
                  [timers[h] EXCEPT !.remaining = Max(0, @ - TickMs)]]
  /\ editAge' = [d \in Days |-> Min(SAVE_DEBOUNCE_MS, editAge[d] + TickMs)]
  /\ UNCHANGED << hasElectronAPI, commitCount, saveTimeouts, ipcChannel, stored,
                  writeLog, commitLog >>

\* A write of the snapshot to the storage of the date; the text written is
\* entriesToMarkdown of the snapshot's entries.
WriteStored(dateStr, snapshot) ==
  /\ stored' = MapSet(stored, dateStr, snapshot)
  /\ writeLog' = [writeLog EXCEPT ![dateStr] = Append(@, snapshot.seq)]

\* The timer callback: send the text to the main process, or write
\* localStorage at once where there is no desktop shell; then
\* saveTimeouts.current.delete(dateStr).
TimerFire(handle) ==
  /\ handle \in DOMAIN timers
  /\ timers[handle].remaining = 0
  /\ LET dateStr == timers[handle].dateStr
         snapshot == timers[handle].snapshot
     IN  /\ IF hasElectronAPI
              THEN /\ ipcChannel' = Append(ipcChannel,
                                            [dateStr |-> dateStr, content |-> snapshot])
                   /\ UNCHANGED << stored, writeLog >>
              ELSE /\ WriteStored(dateStr, snapshot)
                   /\ UNCHANGED ipcChannel
         /\ saveTimeouts' = MapDelete(saveTimeouts, dateStr)
  /\ timers' = MapDelete(timers, handle)
  /\ UNCHANGED << hasElectronAPI, commitCount, commitLog, editAge >>

\* Delivery of invocations out of arrival order.
NextDeliveredLast(channel) == Len(channel)

\* The invocation the main process handles next: invocations of one renderer
\* arrive in the order they were sent.
NextDelivered(channel) == 1

\* ipcMain.handle('save-day'): fs.writeFileSync(filePath, content).
SaveDayHandler ==
  /\ ipcChannel # << >>
  /\ LET k == NextDelivered(ipcChannel)
         msg == ipcChannel[k]
     IN /\ WriteStored(msg.dateStr, msg.content)
        /\ ipcChannel' = [i \in 1 .. (Len(ipcChannel) - 1) |->
                            IF i < k THEN ipcChannel[i] ELSE ipcChannel[i + 1]]
  /\ UNCHANGED << hasElectronAPI, commitCount, saveTimeouts, timers, commitLog,
                  editAge >>

SaveNext ==
  \/ \E d \in Days, entries \in SaveEntryLists : Commit(d, entries)
  \/ Tick
  \/ \E h \in 1 .. MaxCommits : TimerFire(h)
  \/ SaveDayHandler

\* ------------------------------------------------- now panel as a machine
\* An active test that takes the end minute in.
IsActiveAtClosed(e, m) == e.startMinutes <= m /\ m <= e.endMinutes

\* App.tsx: e.startMinutes <= currentMinutes && currentMinutes < e.endMinutes
IsActiveAt(e, m) == e.startMinutes <= m /\ m < e.endMinutes

\* App.tsx activeEntry: todayEntries.find(...), the first hit in list order.
activeEntry(entries, m) ==
  LET hits == {i \in 1 .. Len(entries) : IsActiveAt(entries[i], m)}
  IN  IF hits = {} THEN << >>
                   ELSE << entries[CHOOSE i \in hits : \A j \in hits : i <= j] >>

\* A candidate test that leaves out the entries that start now.
IsUpcomingStrict(e, m, active) == e.startMinutes > m /\ << e >> # active

\* App.tsx: e.startMinutes >= currentMinutes && e !== activeEntry
IsUpcoming(e, m, active) == e.startMinutes >= m /\ << e >> # active

\* App.tsx nextEntry: filter, sort by startMinutes (stable), [0] ?? null.
nextEntry(entries, m, active) ==
  LET sorted == CodecSort(SelectSeq(entries, LAMBDA e : IsUpcoming(e, m, active)))
  IN  IF sorted = << >> THEN << >> ELSE << sorted[1] >>

NowTimes == {540, 570, 600}
\* File entries and zero-length entries included.
NowRanges == {p \in NowTimes \X NowTimes : p[1] <= p[2]}
NowMinutes == {530, 540, 555, 570, 585, 600, 610}

\* The entry an edit appends to a today bucket of n entries.
NowEntry(n, range) ==
  Entry("t" \o ToString(n + 1), "t", range[1], range[2], DEFAULT_COLOR, FALSE)

MaxInFlight == 1

\* The payload of sendActiveEntry: { active: activeEntry ?? null, next: nextEntry }.
WidgetData(active, next) == [active |-> active, next |-> next]

\* An effect that depends on activeEntry only.
SnapshotChangedActiveOnly(old, new) == new.active # old.active
\* App.tsx effect dependencies [activeEntry, nextEntry]: the effect runs when
\* either of them is another object than in the previous render.
SnapshotChanged(old, new) == new # old

\* The values a render computes from the state, and the sendActiveEntry
\* effect that follows the render.
Rendered(entries, m) ==
  LET active == activeEntry(entries, m)
      next == nextEntry(entries, m, active)
  IN  /\ Len(notifyChannel) < MaxInFlight
      /\ nowActive' = active
      /\ nowNext' = next
      /\ IF SnapshotChanged(WidgetData(nowActive, nowNext), WidgetData(active, next))
           THEN /\ notifyChannel' = Append(notifyChannel, WidgetData(active, next))
                /\ lastPushed' = WidgetData(active, next)
           ELSE UNCHANGED << notifyChannel, lastPushed >>
      /\ UNCHANGED << lastActiveEntry, widgetWindow, widgetSent >>

NowIdle ==
  /\ todayEntries = << >>
  /\ currentMinutes = 0
  /\ nowActive = << >>
  /\ nowNext = << >>
  /\ lastPushed = WidgetData(<< >>, << >>)
  /\ notifyChannel = << >>
  /\ lastActiveEntry = << >>
  /\ widgetWindow = "none"
  /\ widgetSent = << >>

\* The app after mount: the first render found nothing, its effect sent
\* { active: null, next: null }; the main process has no widget window.
InitNow ==
  /\ todayEntries = << >>
  /\ currentMinutes = 530
  /\ nowActive = << >>
  /\ nowNext = << >>
  /\ lastPushed = WidgetData(<< >>, << >>)
  /\ notifyChannel = << WidgetData(<< >>, << >>) >>
  /\ lastActiveEntry = << >>
  /\ widgetWindow = "none"
  /\ widgetSent = << >>

\* main.ts ipcMain.on('active-entry-changed'): remember the snapshot and
\* send it to the widget window if there is one; a window that has not
\* finished loading has no listener for it yet.
ActiveEntryChanged ==
  /\ notifyChannel # << >>
  /\ lastActiveEntry' = << Head(notifyChannel) >>
  /\ notifyChannel' = Tail(notifyChannel)
  /\ widgetSent' = IF widgetWindow = "loaded" THEN << Head(notifyChannel) >> ELSE widgetSent
  /\ UNCHANGED << todayEntries, currentMinutes, nowActive, nowNext, lastPushed, widgetWindow >>

\* main.ts ipcMain.on('toggle-widget'): close the widget window if there is
\* one, create it otherwise.
ToggleWidget ==
  /\ widgetWindow' = IF widgetWindow = "none" THEN "loading" ELSE "none"
  /\ widgetSent' = << >>
  /\ UNCHANGED << todayEntries, currentMinutes, nowActive, nowNext, lastPushed,
                  notifyChannel, lastActiveEntry >>

\* main.ts widgetWindow.webContents.on('did-finish-load'): replay
\* lastActiveEntry unless it is null.
DidFinishLoad ==
  /\ widgetWindow = "loading"
  /\ widgetWindow' = "loaded"
  /\ widgetSent' = IF lastActiveEntry # << >> THEN lastActiveEntry ELSE widgetSent
  /\ UNCHANGED << todayEntries, currentMinutes, nowActive, nowNext, lastPushed,
                  notifyChannel, lastActiveEntry >>

\* The one-second interval: setCurrentMinutes(getCurrentMinutes()).
ClockTick ==
  \E m \in NowMinutes :
    /\ m > currentMinutes
    /\ currentMinutes' = m
    /\ todayEntries' = todayEntries
    /\ Rendered(todayEntries, m)

\* setEntriesMap after an edit that appends an entry to the today bucket.
TodayAppend ==
  \E range \in NowRanges :
    /\ Len(todayEntries) < MaxNowEntries
    /\ todayEntries' = Append(todayEntries, NowEntry(Len(todayEntries), range))
    /\ currentMinutes' = currentMinutes
    /\ Rendered(todayEntries', currentMinutes)

\* setEntriesMap after loadAll found no document for today.
TodayLoadEmpty ==
  /\ todayEntries # << >>
  /\ todayEntries' = << >>
  /\ currentMinutes' = currentMinutes
  /\ Rendered(<< >>, currentMinutes)

\* ---------------------------------------------------------- specifications
\* The Timeline interaction state machine.
\* ------------------------------------------------------------ the widget
MaxNowSeconds == 200

\* Entries of the today bucket the main window can report, over the first
\* three minutes of the day.
WidgetMinutes == {1, 2, 3}
WidgetPool ==
  {Entry("w" \o ToString(p[1]) \o ToString(p[2]), "w", p[1], p[2], DEFAULT_COLOR, FALSE) :
     p \in {q \in WidgetMinutes \X WidgetMinutes : q[1] < q[2]}}

\* No press is in progress on the widget: no document listeners.
NoPress == [listening |-> FALSE, startX |-> 0, startY |-> 0, dragging |-> FALSE]

WidgetPressIdle ==
  /\ widgetPress = NoPress
  /\ widgetCalls = << >>
  /\ pointerPath = << >>

WidgetIdle ==
  /\ widgetEntry = << >>
  /\ widgetNext = << >>
  /\ nowSeconds = 0
  /\ remainingSeconds = 0
  /\ WidgetPressIdle

\* Widget.tsx useState: entry null, remainingSeconds 0.
InitWidget ==
  /\ widgetEntry = << >>
  /\ widgetNext = << >>
  /\ nowSeconds \in {55, 115}
  /\ remainingSeconds = 0
  /\ WidgetPressIdle

\* Widget.tsx tick: setRemainingSeconds(Math.max(0, entry.endMinutes * 60 - nowSeconds)).
tick(entry, seconds) == Max(0, entry.endMinutes * 60 - seconds)

\* Widget.tsx onActiveEntryUpdate callback: setEntry(e); the [entry] effect
\* then runs tick() at once if the entry is not null. The main window sends
\* its activeEntry and nextEntry of the current minute.
ActiveEntryUpdate ==
  \E active \in {<< >>} \cup {<< e >> : e \in WidgetPool},
     next \in {<< >>} \cup {<< e >> : e \in WidgetPool} :
    LET m == nowSeconds \div 60
    IN  /\ active # << >> => IsActiveAt(active[1], m)
        /\ next # << >> => IsUpcoming(next[1], m, active)
        /\ << active, next >> # << widgetEntry, widgetNext >>
        /\ widgetEntry' = active
        /\ widgetNext' = next
        /\ remainingSeconds' =
             IF active = << >> THEN remainingSeconds ELSE tick(active[1], nowSeconds)
        /\ nowSeconds' = nowSeconds

\* Widget.tsx setInterval(tick, 1000) of the [entry] effect: a second passes
\* and tick runs on the entry the effect closed over.
WidgetTick ==
  /\ widgetEntry # << >>
  /\ nowSeconds < MaxNowSeconds
  /\ nowSeconds' = nowSeconds + 1
  /\ remainingSeconds' = tick(widgetEntry[1], nowSeconds')
  /\ UNCHANGED << widgetEntry, widgetNext >>

\* A second passes while entry is null: the effect returned early, no
\* interval is running.
ClockAdvance ==
  /\ widgetEntry = << >>
  /\ nowSeconds < MaxNowSeconds
  /\ nowSeconds' = nowSeconds + 1
  /\ UNCHANGED << widgetEntry, widgetNext, remainingSeconds >>

\* The Timeline with the other machines at rest.
Init == InitTimeline /\ LayoutIdle /\ CodecIdle /\ SaveIdle /\ NowIdle /\ WidgetIdle
Next == TimelineNext /\ UNCHANGED << layoutVars, codecVars, saveVars, nowVars, widgetVars >>
Spec == Init /\ [][Next]_vars

\* computeOverlapLayout applied to every input list.
NextLayout ==
  ComputeLayout /\ UNCHANGED << timelineVars, codecVars, saveVars, nowVars, widgetVars >>
LayoutInit == InitLayout /\ TimelineIdle /\ CodecIdle /\ SaveIdle /\ NowIdle /\ WidgetIdle
SpecLayout == LayoutInit /\ [][NextLayout]_vars

\* entriesToMarkdown followed by markdownToEntries on every input list.
NextCodec ==
  /\ Serialize \/ Deserialize
  /\ UNCHANGED << timelineVars, layoutVars, saveVars, nowVars, widgetVars >>
CodecInit == InitCodec /\ TimelineIdle /\ LayoutIdle /\ SaveIdle /\ NowIdle /\ WidgetIdle
SpecCodec == CodecInit /\ [][NextCodec]_vars

\* The load of one day document, for every document put together from the
\* line pool.
NextLoad ==
  LoadDay /\ UNCHANGED << timelineVars, layoutVars, saveVars, nowVars, widgetVars >>
LoadInit == InitLoad /\ TimelineIdle /\ LayoutIdle /\ SaveIdle /\ NowIdle /\ WidgetIdle
SpecLoad == LoadInit /\ [][NextLoad]_vars

\* The saves that follow the commits: debounce timers, the channel to the
\* main process, the writes.
NextSave ==
  SaveNext /\ UNCHANGED << timelineVars, layoutVars, codecVars, nowVars, widgetVars, reloadVars >>
SaveInit == InitSave /\ TimelineIdle /\ LayoutIdle /\ CodecIdle /\ NowIdle /\ WidgetIdle
SpecSave == SaveInit /\ [][NextSave]_vars

\* The save pipeline with its scheduling: time passes, a timer that is due
\* runs its callback, the main process handles an invocation it received.
\* Nothing obliges the user to edit.
SaveFairness ==
  /\ WF_vars(Tick /\ UNCHANGED << timelineVars, layoutVars, codecVars, nowVars, widgetVars,
                                  reloadVars >>)
  /\ WF_vars((\E h \in 1 .. MaxCommits : TimerFire(h))
               /\ UNCHANGED << timelineVars, layoutVars, codecVars, nowVars, widgetVars,
                               reloadVars >>)
  /\ WF_vars(SaveDayHandler /\ UNCHANGED << timelineVars, layoutVars, codecVars, nowVars,
                                            widgetVars, reloadVars >>)
SpecSaveLive == SaveInit /\ [][NextSave]_vars /\ SaveFairness

\* Resize sessions on the days found stored at start.
NextResize ==
  ResizeNext /\ UNCHANGED << layoutVars, codecVars, saveVars, nowVars, widgetVars >>
ResizeInit == InitResize /\ LayoutIdle /\ CodecIdle /\ SaveIdle /\ NowIdle /\ WidgetIdle
SpecResize == ResizeInit /\ [][NextResize]_vars

\* Moving sessions on the stored days.
NextMove ==
  MoveNext /\ UNCHANGED << layoutVars, codecVars, saveVars, nowVars, widgetVars >>
SpecMove == Init /\ [][NextMove]_vars

\* Edits, navigation, the debounced saves and the loads of the desktop app.
NextReload ==
  /\ ReloadNext
  /\ UNCHANGED << timelineVars, layoutVars, codecVars, nowVars, widgetVars, hasElectronAPI,
                  commitCount, saveTimeouts, timers, ipcChannel, stored, writeLog, commitLog,
                  editAge >>
ReloadInit == SaveIdle /\ TimelineIdle /\ LayoutIdle /\ CodecIdle /\ NowIdle /\ WidgetIdle
SpecReload == ReloadInit /\ [][NextReload]_vars

\* ------------------------------------------- the widget: click or drag
DRAG_THRESHOLD == 4
MaxWidgetMoves == 3

\* Screen positions of the pointer: at, within, on and beyond the threshold
\* on either side of the press positions.
ScreenXs == {5, 6, 10, 14, 15}
ScreenYs == {10, 15}
WidgetPressXs == {10}
WidgetPressYs == {10, 11}
MouseButtons == {0, 2}

\* A threshold that counts a distance of exactly DRAG_THRESHOLD as a drag.
ExceedsThresholdInclusive(dx, dy) ==
  Max(dx, -dx) >= DRAG_THRESHOLD \/ Max(dy, -dy) >= DRAG_THRESHOLD
\* Widget.tsx onMouseMove: Math.abs(dx) > DRAG_THRESHOLD || Math.abs(dy) > DRAG_THRESHOLD.
ExceedsThreshold(dx, dy) ==
  Max(dx, -dx) > DRAG_THRESHOLD \/ Max(dy, -dy) > DRAG_THRESHOLD

ApiCall(name, x, y) == [name |-> name, x |-> x, y |-> y]

\* Widget.tsx handleMouseDown: a primary press remembers the position,
\* sends widgetDragStart and attaches the document listeners.
WidgetMouseDown(button, x, y) ==
  /\ ~widgetPress.listening
  /\ button = 0
  /\ widgetPress' = [listening |-> TRUE, startX |-> x, startY |-> y, dragging |-> FALSE]
  /\ widgetCalls' = << ApiCall("widgetDragStart", x, y) >>
  /\ pointerPath' = << >>
  /\ UNCHANGED << widgetEntry, widgetNext, nowSeconds, remainingSeconds >>

\* Widget.tsx onMouseMove: the first move beyond the threshold sets
\* dragging; once set, every move sends widgetDragMove.
WidgetMouseMove(x, y) ==
  LET dragging ==
        \/ widgetPress.dragging
        \/ ExceedsThreshold(x - widgetPress.startX, y - widgetPress.startY)
  IN  /\ widgetPress.listening
      /\ Len(pointerPath) < MaxWidgetMoves
      /\ widgetPress' = [widgetPress EXCEPT !.dragging = dragging]
      /\ widgetCalls' =
           IF dragging THEN Append(widgetCalls, ApiCall("widgetDragMove", x, y))
           ELSE widgetCalls
      /\ pointerPath' = Append(pointerPath, << x, y >>)
      /\ UNCHANGED << widgetEntry, widgetNext, nowSeconds, remainingSeconds >>

\* Widget.tsx onMouseUp: detach the listeners, send widgetDragEnd, and
\* focus the main window if the press never became a drag.
WidgetMouseUp ==
  /\ widgetPress.listening
  /\ widgetPress' = [widgetPress EXCEPT !.listening = FALSE]
  /\ widgetCalls' =
       Append(widgetCalls, ApiCall("widgetDragEnd", 0, 0))
         \o (IF widgetPress.dragging THEN << >> ELSE << ApiCall("focusMainWindow", 0, 0) >>)
  /\ UNCHANGED << pointerPath, widgetEntry, widgetNext, nowSeconds, remainingSeconds >>

NextWidgetPress ==
  /\ \/ \E button \in MouseButtons : \E x \in WidgetPressXs : \E y \in WidgetPressYs :
          WidgetMouseDown(button, x, y)
     \/ \E x \in ScreenXs : \E y \in ScreenYs : WidgetMouseMove(x, y)
     \/ WidgetMouseUp
  /\ UNCHANGED << timelineVars, layoutVars, codecVars, saveVars, nowVars >>
WidgetPressInit == WidgetIdle /\ TimelineIdle /\ LayoutIdle /\ CodecIdle /\ SaveIdle /\ NowIdle
SpecWidgetPress == WidgetPressInit /\ [][NextWidgetPress]_vars

\* The widget: updates arrive from the main window, the clock runs.
NextWidget ==
  /\ ActiveEntryUpdate \/ WidgetTick \/ ClockAdvance
  /\ UNCHANGED << timelineVars, layoutVars, codecVars, saveVars, nowVars, widgetPressVars >>
WidgetInit == InitWidget /\ TimelineIdle /\ LayoutIdle /\ CodecIdle /\ SaveIdle /\ NowIdle
SpecWidget == WidgetInit /\ [][NextWidget]_vars

\* The now panel: the clock and the today bucket change, each render
\* computes the active and the next entry.
NextNow ==
  /\ \/ ClockTick
     \/ TodayAppend
     \/ TodayLoadEmpty
     \/ ActiveEntryChanged
     \/ ToggleWidget
     \/ DidFinishLoad
  /\ UNCHANGED << timelineVars, layoutVars, codecVars, saveVars, widgetVars >>
NowInit == InitNow /\ TimelineIdle /\ LayoutIdle /\ CodecIdle /\ SaveIdle /\ WidgetIdle
SpecNow == NowInit /\ [][NextNow]_vars

\* ----------------------------------------------- properties of the Timeline
\* Number of entries carrying the id, over all buckets.
Occurrences(map, id) ==
  Cardinality({<<d, i>> \in (DOMAIN map) \X (1 .. Len(Pool) + MaxEvents) :
                 i <= Len(map[d]) /\ map[d][i].id = id})

\* The entries the listener's session resizes, as they are in the buckets now.
ResizedEntries ==
  {e \in Range(entriesMap[view.days[view.dragMode.dayIndex].dateStr]) :
     e.id = view.dragMode.entryId}

MoveTicked == lastOp = "moveTick"
ResizeTicked == lastOp \in {"resizeTopTick", "resizeBottomTick"}

\* C2: after each move tick every moving entry (an id of the session's
\* startMinutesMap) is in exactly one day bucket: never in two, never in none.
C2_MoveConservation ==
  MoveTicked =>
    \A id \in DOMAIN view.dragMode.startMinutesMap : Occurrences(entriesMap, id) = 1

\* C4: the entry a create gesture commits satisfies
\* 360 <= startMinutes < endMinutes <= 1380.
C4_CreateInWindow ==
  lastOp = "createCommit" =>
    \A d \in Dates : \A i \in 1 .. Len(entriesMap[d]) :
      entriesMap[d][i].id = generateId(idCounter) => InWindow(entriesMap[d][i])

\* C5: if every entry was inside the day window at the press that started a
\* move or a resize, every entry is inside it after each tick of that drag.
C5_WindowKept ==
  ((MoveTicked \/ ResizeTicked) /\ atPress.windowOk) => AllInWindow(entriesMap)

\* C5 witness: a move tick of a drag that started inside the window pushed
\* entry "a" against the top of the day window.
C5_Witness ==
  /\ MoveTicked
  /\ atPress.windowOk
  /\ \E d \in Dates : \E i \in 1 .. Len(entriesMap[d]) :
       /\ entriesMap[d][i].id = "a"
       /\ entriesMap[d][i].startMinutes = DayStart

\* C6: after every move tick, every entry carrying a moved id has the
\* duration it had at the press (clamped ticks and cross-day ticks included).
C6_DurationKept ==
  MoveTicked =>
    \A id \in DOMAIN atPress.dur : DurationsOf(entriesMap, id) \subseteq atPress.dur[id]

\* C6 witness: entry "a", pressed on another day, now sits on day 1 clamped
\* to the end of the day window after a cross-day tick.
C6_Witness ==
  /\ MoveTicked
  /\ "a" \in DOMAIN atPress.dur
  /\ atPress.day # 1
  /\ \E i \in 1 .. Len(entriesMap[1]) :
       /\ entriesMap[1][i].id = "a"
       /\ entriesMap[1][i].endMinutes = DayEnd

\* C7 as claimed: after a top-edge resize tick startMinutes <= endMinutes - 15
\* and startMinutes >= 360; after a bottom-edge resize tick
\* endMinutes >= startMinutes + 15 and endMinutes <= 1380, for any entry.
C7_ResizeMinimumAnyEntry ==
  /\ lastOp = "resizeTopTick" =>
       \A e \in ResizedEntries :
         e.startMinutes <= e.endMinutes - MIN_RESIZE_MINUTES /\ e.startMinutes >= DayStart
  /\ lastOp = "resizeBottomTick" =>
       \A e \in ResizedEntries :
         e.endMinutes >= e.startMinutes + MIN_RESIZE_MINUTES /\ e.endMinutes <= DayEnd

\* C7 amended: the 15 minute minimum holds for the entries that leave room
\* for it inside the day window: endMinutes >= 375 for the top edge,
\* startMinutes <= 1365 for the bottom edge; the window bound holds for all.
C7_ResizeMinimum ==
  /\ lastOp = "resizeTopTick" =>
       \A e \in ResizedEntries :
         /\ e.startMinutes >= DayStart
         /\ e.endMinutes >= DayStart + MIN_RESIZE_MINUTES =>
              e.startMinutes <= e.endMinutes - MIN_RESIZE_MINUTES
  /\ lastOp = "resizeBottomTick" =>
       \A e \in ResizedEntries :
         /\ e.endMinutes <= DayEnd
         /\ e.startMinutes <= DayEnd - MIN_RESIZE_MINUTES =>
              e.endMinutes >= e.startMinutes + MIN_RESIZE_MINUTES

\* C7 witness: the top edge of "a" was dragged below its bottom edge and
\* stopped 15 minutes short of it.
C7_Witness ==
  /\ lastOp = "resizeTopTick"
  /\ \E e \in ResizedEntries :
       e.id = "a" /\ e.startMinutes = e.endMinutes - MIN_RESIZE_MINUTES

\* The ids of the entries the visible columns show.
VisibleIds == UNION {IdsOf(dayColumns[col].entries) : col \in Days}

\* C17: when a press without modifier on a block starts a move, the move set
\* (the ids of the session's startMinutesMap) holds every selected id that a
\* visible day bucket carries, whichever column it is in.
C17_MoveSetIsSelection ==
  (lastOp = "blockMouseDown" /\ dragMode.type = "moving") =>
    \A id \in selectedIds \cap VisibleIds : id \in DOMAIN dragMode.startMinutesMap

\* C18: a press on a block with the modifier held toggles exactly that
\* block's id in the selection and starts no session and changes no entry; a
\* press without modifier on an unselected block makes the selection that
\* block alone, on a selected block leaves the selection as it is, and both
\* start a moving session on the pressed block.
C18_SelectionOnPress ==
  [][lastOp' \in {"blockMouseDown", "blockCtrlMouseDown"} =>
     \A d \in Days : \A i \in 1 .. Len(dayColumns[d].entries) : \A ctrl \in BOOLEAN :
       (\E y \in PressYs(dayColumns[d].entries[i]) : BlockMouseDown(d, i, y, ctrl)) =>
         LET id == dayColumns[d].entries[i].id
         IN  /\ ctrl =>
                  /\ selectedIds' \ selectedIds = {id} \ selectedIds
                  /\ selectedIds \ selectedIds' = {id} \cap selectedIds
                  /\ dragMode'.type = "none"
                  /\ entriesMap' = entriesMap
             /\ (~ctrl /\ id \notin selectedIds) => selectedIds' = {id}
             /\ (~ctrl /\ id \in selectedIds) => selectedIds' = selectedIds
             /\ ~ctrl => (dragMode'.type = "moving" /\ dragMode'.entryId = id
                          /\ entriesMap' = entriesMap)]_vars

\* C18 witness: a modifier press took a selected block out of a selection of
\* two, and no session started.
C18_Witness ==
  /\ lastOp = "blockCtrlMouseDown"
  /\ Cardinality(selectedIds) = 1
  /\ events = 3
  /\ dragMode.type = "none"

\* The bucket without the entries carrying one of the ids.
Without(entries, ids) == SelectSeq(entries, LAMBDA e : e.id \notin ids)

\* C19: a Delete key press with a non-empty selection and no title edit, and
\* Delete chosen in the context menu, leave no entry with a selected id in
\* any bucket, visible or not, leave every other entry in its bucket as it
\* was and empty the selection; a Delete key press with an empty selection
\* or during a title edit changes nothing.
C19_DeleteSelection ==
  [][/\ (lastOp' = "keyDelete" /\ selectedIds # {} /\ editingId = "") =>
          /\ \A dateStr \in Dates :
               entriesMap'[dateStr] = Without(entriesMap[dateStr], selectedIds)
          /\ selectedIds' = {}
     /\ lastOp' = "menuDelete" =>
          /\ \A dateStr \in Dates :
               entriesMap'[dateStr] =
                 Without(entriesMap[dateStr], MenuIds(selectedIds, colorMenu.entryId))
          /\ selectedIds' = {}
     /\ (lastOp' = "keyDelete" /\ (selectedIds = {} \/ editingId # "")) =>
          UNCHANGED << entriesMap, selectedIds, editingId, colorMenu, dragMode >>]_vars

\* Number of entries of the bucket carrying the id.
CountIn(entries, id) == Cardinality({i \in 1 .. Len(entries) : entries[i].id = id})

\* The entries carrying the id, over all buckets.
EntriesOf(map, id) ==
  UNION {{e \in Range(map[dateStr]) : e.id = id} : dateStr \in DOMAIN map}

\* C20: send to today runs only from a menu opened on a column that is not
\* today; afterwards every entry it was to move (the selection, or the
\* clicked entry alone when it is not selected) is exactly once in the today
\* bucket, with the fields it had, and in no other bucket; every other entry
\* is where and as it was; the selection is empty.
C20_SendToToday ==
  [][lastOp' = "sendToToday" =>
       LET ids == MenuIds(selectedIds, colorMenu.entryId)
       IN  /\ dayColumns[colorMenu.dayIndex].dateStr # todayStr
           /\ \A id \in ids :
                EntriesOf(entriesMap, id) # {} =>
                  /\ CountIn(entriesMap'[todayStr], id) = 1
                  /\ EntriesOf(entriesMap', id) \subseteq EntriesOf(entriesMap, id)
           /\ \A dateStr \in Dates \ {todayStr} :
                entriesMap'[dateStr] = Without(entriesMap[dateStr], ids)
           /\ Without(entriesMap'[todayStr], ids) = Without(entriesMap[todayStr], ids)
           /\ selectedIds' = {}]_vars

\* C21: no two entries, in one bucket or in two, carry the same id (the
\* stored days start with pairwise distinct ids and generateId hands out an
\* id not in use).
C21_UniqueIds ==
  \A dateStr \in Dates : \A id \in IdsOf(entriesMap[dateStr]) :
    Occurrences(entriesMap, id) = 1

\* --------------------------------------------- properties of the layout
\* Strict overlap of the half-open ranges [start, end).
Overlaps(a, b) == a.startMinutes < b.endMinutes /\ b.startMinutes < a.endMinutes

\* The groups the sweep formed for the input (none for the empty list).
InputGroups ==
  IF Len(layoutEntries) = 0 THEN << >> ELSE LayoutGroups(LayoutSort(layoutEntries))

\* Most entries of the group active at one instant (an instant where the
\* number of active entries rises is the start of an entry).
OverlapDepth(group) ==
  LET active(t) == {i \in 1 .. Len(group) :
                      group[i].startMinutes <= t /\ t < group[i].endMinutes}
      depths == {Cardinality(active(group[i].startMinutes)) : i \in 1 .. Len(group)}
  IN  CHOOSE m \in depths : \A k \in depths : k <= m

\* The ids reachable from the ids in S through strict overlap.
RECURSIVE OverlapClosure(_)
OverlapClosure(S) ==
  LET more == {e.id : e \in {x \in Range(layoutEntries) :
                               \E y \in Range(layoutEntries) : y.id \in S /\ Overlaps(x, y)}}
  IN  IF more \subseteq S THEN S ELSE OverlapClosure(S \cup more)

\* C8: no two distinct entries of one group with the same columnIndex have
\* overlapping ranges [start, end).
C8_ColumnSafety ==
  layoutPc = "done" =>
    \A g \in 1 .. Len(InputGroups) :
      \A i, j \in 1 .. Len(InputGroups[g]) :
        LET a == InputGroups[g][i]
            b == InputGroups[g][j]
        IN  (i # j /\ layoutResult[a.id].columnIndex = layoutResult[b.id].columnIndex)
              => ~Overlaps(a, b)

\* C8 witness: a group of three entries of which two share column 0.
C8_Witness ==
  /\ layoutPc = "done"
  /\ \E g \in 1 .. Len(InputGroups) :
       /\ Len(InputGroups[g]) = 3
       /\ Cardinality({i \in 1 .. 3 : layoutResult[InputGroups[g][i].id].columnIndex = 0}) = 2

\* C9: totalColumns of every entry equals the maximum overlap depth of its
\* group (so it is the same for the whole group and never larger).
C9_TotalColumnsIsDepth ==
  layoutPc = "done" =>
    \A g \in 1 .. Len(InputGroups) :
      \A i \in 1 .. Len(InputGroups[g]) :
        layoutResult[InputGroups[g][i].id].totalColumns = OverlapDepth(InputGroups[g])

\* C9 witness: a group of three entries laid out in two columns.
C9_Witness ==
  /\ layoutPc = "done"
  /\ \E g \in 1 .. Len(InputGroups) :
       /\ Len(InputGroups[g]) = 3
       /\ \A i \in 1 .. 3 : layoutResult[InputGroups[g][i].id].totalColumns = 2

\* C10: the groups of the sweep are the connected components of strict
\* overlap, whatever the input order; an entry alone in its group (such as
\* each of two unbridged back-to-back entries) gets totalColumns 1.
C10_GroupsAreComponents ==
  layoutPc = "done" =>
    /\ \A i \in 1 .. Len(layoutEntries) :
         \E g \in 1 .. Len(InputGroups) :
           IdsOf(InputGroups[g]) = OverlapClosure({layoutEntries[i].id})
    /\ \A g \in 1 .. Len(InputGroups) :
         /\ \E i \in 1 .. Len(layoutEntries) :
              IdsOf(InputGroups[g]) = OverlapClosure({layoutEntries[i].id})
         /\ Len(InputGroups[g]) = 1 =>
              layoutResult[InputGroups[g][1].id] = [columnIndex |-> 0, totalColumns |-> 1]

\* C10 witness: two entries, the second given first, where one ends exactly
\* when the other starts: two groups of one entry each.
C10_Witness ==
  /\ layoutPc = "done"
  /\ Len(layoutEntries) = 2
  /\ layoutEntries[2].endMinutes = layoutEntries[1].startMinutes
  /\ Len(InputGroups) = 2
  /\ \A i \in 1 .. 2 : layoutResult[layoutEntries[i].id].totalColumns = 1

\* The input position of the entry with the given id.
LayoutIndex(id) == CHOOSE i \in 1 .. Len(layoutEntries) : layoutEntries[i].id = id

\* The reference order: startMinutes ascending, longer duration first, input
\* order between entries equal in both.
PackedBefore(a, b) ==
  \/ a.startMinutes < b.startMinutes
  \/ /\ a.startMinutes = b.startMinutes
     /\ (a.endMinutes - a.startMinutes) > (b.endMinutes - b.startMinutes)
  \/ /\ a.startMinutes = b.startMinutes
     /\ a.endMinutes = b.endMinutes
     /\ LayoutIndex(a.id) < LayoutIndex(b.id)

ColumnOf(e) == layoutResult[e.id].columnIndex

\* Column c is free for e in the reference packer: of the entries of the
\* group placed in c before e, the last one ends at or before e's start.
ReferenceFree(group, e, c) ==
  LET placed == {f \in Range(group) : PackedBefore(f, e) /\ ColumnOf(f) = c}
  IN  \A f \in placed :
        (\A f2 \in placed : f2 = f \/ PackedBefore(f2, f)) => f.endMinutes <= e.startMinutes

\* The column the reference first-fit packer gives e: the lowest column that
\* is free for it (a column nobody was placed in yet is free).
ReferenceColumn(group, e) ==
  CHOOSE c \in 0 .. Len(group) :
    /\ ReferenceFree(group, e, c)
    /\ \A c2 \in 0 .. (c - 1) : ~ReferenceFree(group, e, c2)

\* Every entry has the column of the reference first-fit packer.
FirstFitColumns(groups) ==
  \A g \in 1 .. Len(groups) :
    \A e \in Range(groups[g]) : ColumnOf(e) = ReferenceColumn(groups[g], e)

\* Of two entries with the same start the longer one has the lower column.
LongerFirst ==
  \A a, b \in Range(layoutEntries) :
    (a.startMinutes = b.startMinutes /\ a.endMinutes > b.endMinutes)
      => ColumnOf(a) < ColumnOf(b)

\* A fully nested entry never shares the column of its container.
NestedApart ==
  \A a, b \in Range(layoutEntries) :
    (a # b /\ a.startMinutes <= b.startMinutes /\ b.endMinutes <= a.endMinutes)
      => ColumnOf(a) # ColumnOf(b)

\* e and f are in one group, f is placed before e and e starts exactly at
\* the end of f.
StartsAtEndOf(groups, e, f) ==
  /\ e # f
  /\ e.startMinutes = f.endMinutes
  /\ \E g \in 1 .. Len(groups) : {e, f} \subseteq Range(groups[g])

\* C11 as stated: reference first-fit columns; the longer of two entries with
\* one start has the lower column; a nested entry never shares its
\* container's column; an entry that starts exactly at the end of an occupant
\* of a column is in that column.
C11_FirstFitReusesColumn ==
  layoutPc = "done" =>
    LET groups == InputGroups
    IN  /\ FirstFitColumns(groups)
        /\ LongerFirst
        /\ NestedApart
        /\ \A e, f \in Range(layoutEntries) :
             StartsAtEndOf(groups, e, f) => ColumnOf(e) = ColumnOf(f)

\* C11 amended: reference first-fit columns; the longer of two entries with
\* one start has the lower column; a nested entry never shares its
\* container's column; an entry that starts exactly at the end of an occupant
\* of a column is in that column or a lower one, unless an entry placed
\* since then still holds that column.
C11_FirstFit ==
  layoutPc = "done" =>
    LET groups == InputGroups
    IN  /\ FirstFitColumns(groups)
        /\ LongerFirst
        /\ NestedApart
        /\ \A e, f \in Range(layoutEntries) :
             StartsAtEndOf(groups, e, f) =>
               \/ ColumnOf(e) <= ColumnOf(f)
               \/ \E h \in Range(layoutEntries) :
                    /\ ColumnOf(h) = ColumnOf(f)
                    /\ PackedBefore(f, h) /\ PackedBefore(h, e)
                    /\ h.endMinutes > e.startMinutes

\* C11 witness: four entries in one group and three columns, two entries of
\* one start in different columns, and an entry that starts at the end of an
\* occupant of column 1 or 2 and reuses that column.
C11_Witness ==
  /\ layoutPc = "done"
  /\ Len(layoutEntries) = 4
  /\ Len(InputGroups) = 1
  /\ \A e \in Range(layoutEntries) : layoutResult[e.id].totalColumns = 3
  /\ \E a, b \in Range(layoutEntries) :
       a.startMinutes = b.startMinutes /\ a.endMinutes > b.endMinutes
  /\ \E e, f \in Range(layoutEntries) :
       StartsAtEndOf(InputGroups, e, f) /\ ColumnOf(e) = ColumnOf(f) /\ ColumnOf(f) > 0

\* ----------------------------------------------- properties of the codec
\* Position of the entry with the given id in the input list.
InputIndex(id) == CHOOSE i \in 1 .. Len(codecEntries) : codecEntries[i].id = id

\* C1: markdownToEntries(entriesToMarkdown(entries, date)) returns the same
\* entries, every field identical, ordered by startMinutes ascending with
\* equal starts in input order.
C1_RoundTrip ==
  codecPc = "parsed" =>
    /\ Len(codecParsed) = Len(codecEntries)
    /\ Range(codecParsed) = Range(codecEntries)
    /\ \A i, j \in 1 .. Len(codecParsed) :
         i < j =>
           \/ codecParsed[i].startMinutes < codecParsed[j].startMinutes
           \/ /\ codecParsed[i].startMinutes = codecParsed[j].startMinutes
              /\ codecParsed[i].id \in IdsOf(codecEntries)
              /\ codecParsed[j].id \in IdsOf(codecEntries)
              /\ InputIndex(codecParsed[i].id) < InputIndex(codecParsed[j].id)

\* The round trip restricted to lists without an empty title.
RoundTripNonEmptyTitles ==
  (\A i \in 1 .. Len(codecEntries) : codecEntries[i].title # << >>) => C1_RoundTrip

\* The lines of the loaded document and the indices of its sub-heading
\* lines: "## HH:MM - HH:MM | title" with a title of at least one character.
DocLines == SplitLines(codecMd)
IsSubHeading(line) ==
  \E title \in {SubSeq(line, 20, Len(line))} :
    /\ Len(title) >= 1
    /\ \A i \in {4, 5, 7, 8, 12, 13, 15, 16} : line[i] \in Range(DigitChars)
    /\ line = << "#", "#", " ", line[4], line[5], ":", line[7], line[8], " ", "-", " ",
                 line[12], line[13], ":", line[15], line[16], " ", "|", " " >> \o title
SubHeadings == {h \in 1 .. Len(DocLines) : Len(DocLines[h]) >= 20 /\ IsSubHeading(DocLines[h])}

\* The line of the k-th sub-heading, and the lines of its section: those
\* behind it up to the next sub-heading or the end of the document.
SubHeadingAt(k) ==
  CHOOSE h \in SubHeadings : Cardinality({g \in SubHeadings : g <= h}) = k
SectionOf(k) ==
  LET h == SubHeadingAt(k)
      later == {g \in SubHeadings : g > h}
      stop == IF later = {} THEN Len(DocLines) + 1
                            ELSE CHOOSE g \in later : \A g2 \in later : g <= g2
  IN  {DocLines[l] : l \in (h + 1) .. (stop - 1)}

\* The line holds the text somewhere.
Contains(line, text) ==
  \E c \in 1 .. Len(line) :
    c + Len(text) - 1 <= Len(line) /\ SubSeq(line, c, c + Len(text) - 1) = text

\* C22: the color, id and done of every parsed entry come from the lines of
\* its own section only: a color other than the fallback and an id that was
\* not synthesized stand on a line between its sub-heading and the next one,
\* and done is true only if a Done marker stands there.
C22_NoMetadataBleed ==
  codecPc = "loaded" =>
    \A k \in 1 .. Len(codecParsed) :
      k <= Cardinality(SubHeadings) =>
        LET e == codecParsed[k]
        IN  /\ e.color # FallbackColor =>
                 \E line \in SectionOf(k) : Contains(line, ColorKey \o e.color)
            /\ e.id # << "g" >> \o Decimal(k) =>
                 \E line \in SectionOf(k) : Contains(line, IdKey \o e.id)
            /\ e.done => \E line \in SectionOf(k) : Contains(line, DoneMark)

\* The minutes a sub-heading line states for the time at column c.
MinutesAt(line, c) ==
  (DigitValue(line[c]) * 10 + DigitValue(line[c + 1])) * 60
    + DigitValue(line[c + 3]) * 10 + DigitValue(line[c + 4])

\* C23: loading returns one entry per sub-heading line of the document, in
\* line order, with the times and the title that line states, and nothing
\* for any other line; a document without a sub-heading line and a missing
\* document give the empty list.
C23_GracefulParsing ==
  /\ codecPc = "loaded" =>
       /\ Len(codecParsed) = Cardinality(SubHeadings)
       /\ \A k \in 1 .. Len(codecParsed) :
            k <= Cardinality(SubHeadings) =>
              LET line == DocLines[SubHeadingAt(k)]
              IN  /\ codecParsed[k].title = SubSeq(line, 20, Len(line))
                  /\ codecParsed[k].startMinutes = MinutesAt(line, 4)
                  /\ codecParsed[k].endMinutes = MinutesAt(line, 12)
  /\ codecPc = "loadedMissing" => codecParsed = << >>

\* C23 witness: a document of three lines ended by "\r" and "\n", two of
\* them sub-headings and one a heading that is none, loaded as two entries.
C23_Witness ==
  /\ codecPc = "loaded"
  /\ Len(codecParsed) = 2
  /\ Len(DocLines) = 3
  /\ \E h \in 1 .. 3 : h \notin SubHeadings /\ HasPrefix(DocLines[h], HeadingMark)
  /\ \E i, j \in 1 .. Len(codecMd) : codecMd[i] = CR /\ codecMd[j] = NL

\* An entry, a bucket map, a day column list on the 15-minute grid.
OnGrid(e) == e.startMinutes % SNAP_MINUTES = 0 /\ e.endMinutes % SNAP_MINUTES = 0
BucketsOnGrid(map) ==
  \A dateStr \in DOMAIN map : \A i \in 1 .. Len(map[dateStr]) : OnGrid(map[dateStr][i])
SessionOnGrid(dm) ==
  dm.type = "moving" =>
    \A id \in DOMAIN dm.startMinutesMap : dm.startMinutesMap[id] % SNAP_MINUTES = 0
\* Every entry time the program holds is a multiple of 15: the buckets, the
\* day columns the listeners closed over, and the starts a move recorded.
GridState ==
  /\ BucketsOnGrid(entriesMap)
  /\ \A col \in Days : \A i \in 1 .. Len(view.days[col].entries) :
       OnGrid(view.days[col].entries[i])
  /\ SessionOnGrid(dragMode)
  /\ SessionOnGrid(view.dragMode)

\* C25: the 15-minute grid is kept by every operation: from entry times
\* that are all multiples of 15 (as they are at start when the stored
\* buckets are on the grid), a create, a move within a day or across days,
\* a resize or any other operation, at any pointer position and hour height,
\* leaves every startMinutes and endMinutes a multiple of 15.
C25_SnapGrid == [][GridState => GridState']_vars

\* C25 witness: on-grid buckets in which a create at pixel 100 of a 60 px
\* hour (460 minutes) committed an entry with an edge snapped to 465.
C25_Witness ==
  /\ GridState
  /\ lastOp = "createCommit"
  /\ hourHeight = 60
  /\ \E dateStr \in Dates :
       /\ Len(entriesMap[dateStr]) = 2
       /\ entriesMap[dateStr][1] = Pool[1]
       /\ entriesMap[dateStr][2].id = generateId(1)
       /\ 465 \in {entriesMap[dateStr][2].startMinutes, entriesMap[dateStr][2].endMinutes}

PressOps == {"timelineMouseDown", "blockMouseDown", "blockCtrlMouseDown", "resizeStart"}
ReleaseOps == {"mouseUp", "createCommit"}
MoveOps ==
  {"pointerMove", "createTick", "moveTick", "resizeTopTick", "resizeBottomTick"}

\* C26, the states: the session is one of none, creating, moving, resizing,
\* and the listeners of a session exist only while there is a session.
C26_SessionKinds ==
  /\ dragMode.type \in {"none", "creating", "moving", "resizing"}
  /\ dragMode.type = "none" => view.dragMode.type = "none"

ResizeFrame(dm, oldMap, newMap, dateStr) ==
  LET old == oldMap[dateStr]
      new == newMap[dateStr]
  IN  /\ \A other \in DOMAIN oldMap \ {dateStr} : newMap[other] = oldMap[other]
      /\ Len(new) = Len(old)
      /\ \A i \in 1 .. Len(old) :
           IF old[i].id = dm.entryId
             THEN new[i] = IF dm.edge = "top"
                             THEN [old[i] EXCEPT !.startMinutes = new[i].startMinutes]
                             ELSE [old[i] EXCEPT !.endMinutes = new[i].endMinutes]
             ELSE new[i] = old[i]
      /\ Cardinality({i \in 1 .. Len(old) : new[i] # old[i]}) <= 1

CreateCommits(dm, hh) ==
  LET minY == Min(dm.startY, dm.currentY)
      maxY == Max(dm.startY, dm.currentY)
  IN  /\ maxY - minY > CREATE_THRESHOLD_PX
      /\ snapToGrid(pixelsToMinutes(maxY, hh)) > snapToGrid(pixelsToMinutes(minY, hh))

AllIds(map) == UNION {IdsOf(map[dateStr]) : dateStr \in DOMAIN map}

VisibleDates == {selectedDate + col : col \in Days}

\* C30: a palette colour chosen in the menu is set on every selected entry
\* of every visible bucket (on the clicked entry alone if nothing is
\* selected); no other field of those entries and no other entry changes,
\* a change is notified exactly for the visible buckets that hold one of
\* those entries, and the menu closes.
C30_Recolor ==
  [][(events' # events /\ lastOp' = "colorSelect")
       => LET ids == IF selectedIds = {} THEN {colorMenu.entryId} ELSE selectedIds
          IN  /\ \A dateStr \in Dates :
                   /\ Len(entriesMap'[dateStr]) = Len(entriesMap[dateStr])
                   /\ \A i \in 1 .. Len(entriesMap[dateStr]) :
                        entriesMap'[dateStr][i] =
                          IF dateStr \in VisibleDates /\ entriesMap[dateStr][i].id \in ids
                            THEN [entriesMap[dateStr][i] EXCEPT !.color = PaletteColor]
                            ELSE entriesMap[dateStr][i]
              /\ notified' = {dateStr \in VisibleDates :
                                IdsOf(entriesMap[dateStr]) \cap ids # {}}
              /\ colorMenu' = NoMenu]_vars

\* C30 witness: two selected entries in two buckets carry the palette
\* colour, an unselected entry next to one of them keeps the default one,
\* and both buckets were notified.
C30_Witness ==
  /\ lastOp = "colorSelect"
  /\ Cardinality(selectedIds) = 2
  /\ Cardinality(notified) = 2
  /\ \A dateStr \in notified :
       \E i \in 1 .. Len(entriesMap[dateStr]) :
         /\ entriesMap[dateStr][i].id \in selectedIds
         /\ entriesMap[dateStr][i].color = PaletteColor
  /\ \E dateStr \in notified : \E i \in 1 .. Len(entriesMap[dateStr]) :
       /\ entriesMap[dateStr][i].id \notin selectedIds
       /\ entriesMap[dateStr][i].color = DEFAULT_COLOR

\* C31: a click on the done box of a block flips the done flag of that one
\* entry and nothing else: its other fields, every other entry of every
\* bucket, the selection and the drag session stay, and a second click on
\* it restores the flag.
C31_DoneToggleFrame ==
  [][(events' # events /\ lastOp' = "toggleDone")
       => /\ selectedIds' = selectedIds
          /\ dragMode' = dragMode
          /\ \E dateStr \in Dates : \E i \in 1 .. Len(entriesMap[dateStr]) :
               /\ entriesMap' =
                    [entriesMap EXCEPT ![dateStr][i].done = ~entriesMap[dateStr][i].done]
               /\ toggleDone(entriesMap'[dateStr], entriesMap[dateStr][i].id)
                    = entriesMap[dateStr]]_vars

FirstBeyond(path, px, py) ==
  LET far(k) == \/ path[k][1] - px > 4 \/ px - path[k][1] > 4
                \/ path[k][2] - py > 4 \/ py - path[k][2] > 4
      hits == {k \in 1 .. Len(path) : far(k)}
  IN  IF hits = {} THEN Len(path) + 1 ELSE CHOOSE k \in hits : \A j \in hits : k <= j

\* C34: since a primary press at (px, py) the calls are: drag-start once,
\* first; a drag-move for exactly the positions from the first one beyond
\* 4 px onward, in order; after the release drag-end once, followed by
\* focus-main-window if and only if no position went beyond 4 px.
C34_ClickVersusDrag ==
  widgetCalls # << >> =>
    LET px == widgetPress.startX
        py == widgetPress.startY
        first == FirstBeyond(pointerPath, px, py)
        moves == [k \in 1 .. Len(pointerPath) + 1 - first |->
                    ApiCall("widgetDragMove", pointerPath[first + k - 1][1],
                            pointerPath[first + k - 1][2])]
        released == IF first > Len(pointerPath)
                    THEN << ApiCall("widgetDragEnd", 0, 0), ApiCall("focusMainWindow", 0, 0) >>
                    ELSE << ApiCall("widgetDragEnd", 0, 0) >>
    IN  widgetCalls =
          << ApiCall("widgetDragStart", px, py) >> \o moves
            \o (IF widgetPress.listening THEN << >> ELSE released)

\* C34 witness: a released press whose pointer stayed exactly 4 px away,
\* went beyond, and came back to the press point: a click it is not, and
\* the move back inside the threshold was sent too.
C34_Witness ==
  /\ ~widgetPress.listening
  /\ pointerPath = << << 14, 10 >>, << 15, 10 >>, << 10, 10 >> >>
  /\ widgetPress.startX = 10 /\ widgetPress.startY = 10
  /\ Len(widgetCalls) = 4

\* C34 witness of a click: released after moves within the threshold, the
\* main window is focused.
C34_ClickWitness ==
  /\ ~widgetPress.listening
  /\ Len(pointerPath) = 2
  /\ widgetCalls[Len(widgetCalls)].name = "focusMainWindow"

\* Timeline.tsx perDayData: the creation preview of the rendered creating
\* session, << previewStartMin, previewEndMin >>; both are 0 when the span
\* does not exceed 5 px. The preview block is laid out when start < end.
CreationPreview(dm, hh) ==
  LET minY == Min(dm.startY, dm.currentY)
      maxY == Max(dm.startY, dm.currentY)
  IN  IF maxY - minY > CREATE_THRESHOLD_PX
        THEN << Max(DayStart, snapToGrid(pixelsToMinutes(minY, hh))),
                Min(DayEnd, snapToGrid(pixelsToMinutes(maxY, hh))) >>
        ELSE << 0, 0 >>

\* C35: the release of a creating session commits an entry exactly when the
\* last render showed a creation preview for the final pointer position,
\* and the committed entry has the start and the end of that preview.
C35_PreviewCommitAgree ==
  [][(events' # events /\ lastOp' \in ReleaseOps /\ dragMode.type = "creating")
       => LET dateStr == dayColumns[dragMode.dayIndex].dateStr
              preview == CreationPreview(dragMode, hourHeight)
              shown == view.dragMode = dragMode /\ preview[1] < preview[2]
              bucket == entriesMap'[dateStr]
          IN  /\ (lastOp' = "createCommit") <=> shown
              /\ lastOp' = "createCommit" =>
                   /\ bucket[Len(bucket)].startMinutes = preview[1]
                   /\ bucket[Len(bucket)].endMinutes = preview[2]]_vars

ReloadSettled == mainQueue = << >> /\ loadReplies = << >> /\ pendingSave = EmptyMap

\* C37: once the reloads and the pending saves have completed, every bucket
\* in memory equals the entries of its stored document, and the stored
\* document of a date holds the block of every edit made to that date.
C37_NoEditLost ==
  ReloadSettled =>
    /\ \A dateStr \in DOMAIN loadedMap : loadedMap[dateStr] = disk[dateStr]
    /\ \A k \in 1 .. Len(editLog) : EditEntry(k) \in Range(disk[editLog[k]])

\* C38: when the result of a load arrives, the blocks of the edits made
\* since that load started stay in memory; and once no load is in flight
\* the map holds a bucket for every visible date and for today, the stored
\* one unless the bucket was edited since the last load started.
C38_LoadsSettle ==
  [][(loadReplies # << >> /\ loadReplies' = Tail(loadReplies))
       => LET reply == Head(loadReplies)
              loading == loadReplies' # << >>
                           \/ \E i \in 1 .. Len(mainQueue) : mainQueue[i].type = "load-day"
          IN  /\ \A k \in (reply.editsBefore + 1) .. Len(editLog) :
                   EditEntry(k) \in Range(BucketOrEmpty(loadedMap', editLog[k]))
              /\ ~loading =>
                   \A dateStr \in visibleDateStrs \cup {todayStr} :
                     /\ dateStr \in DOMAIN loadedMap'
                     /\ (\A k \in (reply.editsBefore + 1) .. Len(editLog) : editLog[k] # dateStr)
                          => loadedMap'[dateStr] = reply.newMap[dateStr]]_vars

\* C39: in every state every selected id is the id of an entry of a day
\* bucket on screen.
C39_NoDanglingSelection == selectedIds \subseteq VisibleIds

\* The entry of a moved id lay on the 15 minute grid inside the day window
\* at the press: its recorded start and its durations.
MovedOnGridInWindow(id) ==
  LET orig == dragMode.startMinutesMap[id]
  IN  /\ orig % SNAP_MINUTES = 0
      /\ orig >= DayStart
      /\ \A duration \in atPress.dur[id] :
           duration % SNAP_MINUTES = 0 /\ duration > 0 /\ orig + duration <= DayEnd

\* C40: after a move tick with the pointer on row y, every entry of a moved
\* id that lay on the grid inside the window at the press starts at its
\* recorded start plus the snapped offset of y from the press row, clamped
\* to the window, and keeps its duration, whatever the ticks before; on the
\* press row that is its start and its end at the press.
C40_MoveByPosition ==
  [][\A y \in PointerYs \cup {IF dragMode.type = "moving" THEN dragMode.offsetY ELSE 0} :
       \A col \in Days :
         (dragMode.type = "moving" /\ MouseMove(y, col) /\ lastOp' = "moveTick")
           => \A dateStr \in Dates : \A i \in 1 .. Len(entriesMap'[dateStr]) :
                LET e == entriesMap'[dateStr][i]
                    orig == dragMode.startMinutesMap[e.id]
                    delta == DeltaMinutes(y, dragMode.offsetY, hourHeight)
                IN  (e.id \in DOMAIN dragMode.startMinutesMap /\ MovedOnGridInWindow(e.id))
                      => \E duration \in atPress.dur[e.id] :
                           /\ e.startMinutes = Max(DayStart, Min(DayEnd - duration, orig + delta))
                           /\ e.endMinutes = e.startMinutes + duration
                           /\ y = dragMode.offsetY =>
                                e.startMinutes = orig /\ e.endMinutes = orig + duration]_vars

\* C24: at the tick where the countdown of the displayed entry reaches
\* zero the widget goes on to the last received next entry if that entry
\* has started (startMinutes * 60 <= now in seconds) and to "No active
\* block" otherwise; the expired entry is not shown any longer.
C24_RolloverAtZero ==
  [][(/\ widgetEntry # << >>
      /\ nowSeconds' # nowSeconds
      /\ widgetEntry[1].endMinutes * 60 <= nowSeconds')
       => widgetEntry' =
            IF widgetNext # << >> /\ widgetNext[1].startMinutes * 60 <= nowSeconds'
              THEN widgetNext ELSE << >>]_vars

\* C33: the snapshot pushed last is the pair the last render computed; once
\* the main process has handled every push it holds that snapshot, and a
\* widget that has finished loading, before or after the push, was sent it.
C33_NotifierFresh ==
  /\ lastPushed = WidgetData(nowActive, nowNext)
  /\ notifyChannel = << >> => lastActiveEntry = << lastPushed >>
  /\ (notifyChannel = << >> /\ widgetWindow = "loaded") => widgetSent = << lastPushed >>

\* C33 witness: with three today entries, an active and a next entry are
\* computed, every push is handled and the loaded widget was sent the pair.
C33_Witness ==
  /\ Len(todayEntries) = 3
  /\ nowActive # << >> /\ nowNext # << >>
  /\ notifyChannel = << >>
  /\ widgetWindow = "loaded"
  /\ widgetSent = << WidgetData(nowActive, nowNext) >>

\* --------------------------------------- properties of the save pipeline
\* C3: per day bucket the snapshots are written in commit order; after the
\* snapshot of a later commit is written, no earlier one is written.
C3_SaveOrder ==
  \A d \in Days :
    \A i, j \in 1 .. Len(writeLog[d]) : i < j => writeLog[d][i] < writeLog[d][j]

\* Two snapshots of one bucket written by the main process, with a further
\* commit between the two.
C3_Witness ==
  /\ hasElectronAPI
  /\ \E d \in Days :
       /\ Len(writeLog[d]) >= 2
       /\ writeLog[d][2] > writeLog[d][1] + 1
       /\ stored[d].seq = writeLog[d][2]

\* The live timers of a date.
TimersOf(d) == {h \in DOMAIN timers : timers[h].dateStr = d}

\* No timer is live and no invocation is in flight.
Quiescent == DOMAIN timers = {} /\ ipcChannel = << >>

\* The ordinals of the last commits of the bursts of a log, oldest first;
\* joins[i] says that commit i belongs to the burst of commit i - 1.
BurstEnds(log, joins) ==
  LET ends == {i \in 1 .. Len(log) : i = Len(log) \/ ~joins[i + 1]}
  IN  [k \in 1 .. Cardinality(ends) |->
         log[CHOOSE i \in ends : Cardinality({j \in ends : j <= i}) = k].seq]

\* Bursts by time: a commit joins the burst of the commit before it when
\* less than 300 ms lie between the two.
TimeBursts(d) == BurstEnds(commitLog[d], [i \in 1 .. Len(commitLog[d]) |-> commitLog[d][i].recent])

\* Bursts by supersession: a commit joins the burst of the commit before it
\* when it cancelled that commit's pending save.
PendingBursts(d) ==
  BurstEnds(commitLog[d], [i \in 1 .. Len(commitLog[d]) |-> commitLog[d][i].pending])

IsPrefix(a, b) == Len(a) <= Len(b) /\ SubSeq(b, 1, Len(a)) = a

\* At most one save timer is pending per bucket; it holds the snapshot of
\* the latest commit to the bucket and runs from that commit.
OnePendingSave ==
  \A d \in Days :
    /\ Cardinality(TimersOf(d)) <= 1
    /\ \A h \in TimersOf(d) :
         /\ saveTimeouts[d] = h
         /\ timers[h].snapshot.seq = commitLog[d][Len(commitLog[d])].seq
         /\ timers[h].snapshot.entries = commitLog[d][Len(commitLog[d])].entries
         /\ timers[h].remaining = SAVE_DEBOUNCE_MS - editAge[d]

\* C12 as stated: at most one pending save per bucket, superseded by the next
\* edit; every burst of edits less than 300 ms apart has produced exactly one
\* write, of its last edit, once nothing is pending.
C12_BurstByTimeOneWrite ==
  /\ OnePendingSave
  /\ Quiescent => \A d \in Days : writeLog[d] = TimeBursts(d)

\* C12 amended: at most one pending save per bucket, superseded by the next
\* edit; of a burst of edits of which each arrives while the save of the one
\* before is pending (as it is when less than 300 ms lie between them) only
\* the last edit is written, once, and it has been written when nothing is
\* pending.
C12_Supersession ==
  /\ OnePendingSave
  /\ \A d \in Days :
       /\ IsPrefix(writeLog[d], PendingBursts(d))
       /\ Quiescent => writeLog[d] = PendingBursts(d)
       /\ \A i \in 1 .. Len(commitLog[d]) : commitLog[d][i].recent => commitLog[d][i].pending

\* C12 witness: three edits to one bucket, each less than 300 ms after the
\* one before; one write, of the third.
C12_Witness ==
  /\ Quiescent
  /\ \E d \in Days :
       /\ Len(commitLog[d]) = 3
       /\ commitLog[d][2].recent /\ commitLog[d][3].recent
       /\ writeLog[d] = << commitLog[d][3].seq >>
       /\ stored[d].seq = commitLog[d][3].seq

\* Every snapshot sent or stored is a commit of the bucket it is sent or
\* stored under.
OwnSnapshot(d, snapshot) ==
  \E i \in 1 .. Len(commitLog[d]) :
    commitLog[d][i].seq = snapshot.seq /\ commitLog[d][i].entries = snapshot.entries

\* A step that commits to a bucket other than d leaves the pending save of d
\* as it is: same timer, same snapshot, same time left.
OtherBucketUntouched(d) ==
  (commitCount' = commitCount + 1 /\ commitLog'[d] = commitLog[d]) =>
    /\ \A h \in TimersOf(d) : h \in DOMAIN timers' /\ timers'[h] = timers[h]
    /\ d \in DOMAIN saveTimeouts =>
         (d \in DOMAIN saveTimeouts' /\ saveTimeouts'[d] = saveTimeouts[d])

\* A step in which the pending save of d fires sends or writes the snapshot
\* of the latest commit to d under d, and nothing for any other bucket.
FiresOwnLatest(d) ==
  (\E h \in TimersOf(d) : h \notin DOMAIN timers' /\ commitCount' = commitCount) =>
    LET latest == commitLog[d][Len(commitLog[d])]
        snapshot == Snapshot(latest.seq, latest.entries)
    IN  IF hasElectronAPI
          THEN ipcChannel' = Append(ipcChannel, [dateStr |-> d, content |-> snapshot])
          ELSE /\ stored' = MapSet(stored, d, snapshot)
               /\ \A d2 \in Days \ {d} : writeLog'[d2] = writeLog[d2]

\* C13: an edit to one bucket never cancels, postpones or changes the pending
\* save of another bucket; that save fires once and writes the bucket's own
\* latest snapshot under the bucket's key.
C13_Independence ==
  /\ [][\A d \in Days : OtherBucketUntouched(d) /\ FiresOwnLatest(d)]_vars
  /\ [](\A d \in Days :
          /\ d \in DOMAIN stored => OwnSnapshot(d, stored[d])
          /\ \A i, j \in 1 .. Len(writeLog[d]) : i # j => writeLog[d][i] # writeLog[d][j]
          /\ \A k \in 1 .. Len(ipcChannel) :
               OwnSnapshot(ipcChannel[k].dateStr, ipcChannel[k].content))

\* C13 witness: a save of one bucket is pending and part of its delay has
\* passed when another bucket is edited; both are pending.
C13_Witness ==
  \E a, b \in Days :
    /\ a # b
    /\ \E ha \in TimersOf(a), hb \in TimersOf(b) :
         /\ hb < ha
         /\ timers[hb].remaining < timers[ha].remaining
         /\ timers[ha].remaining = SAVE_DEBOUNCE_MS

\* Nothing is pending and the stored document of every edited bucket is the
\* one written from the latest entry list of the bucket.
Settled ==
  /\ Quiescent
  /\ saveTimeouts = EmptyMap
  /\ \A d \in Days :
       commitLog[d] # << >> =>
         /\ d \in DOMAIN stored
         /\ stored[d] = Snapshot(commitLog[d][Len(commitLog[d])].seq,
                                 commitLog[d][Len(commitLog[d])].entries)

\* C14: the commits of a behaviour are finitely many; after the last one,
\* eventually and from then on no save is pending and every edited bucket is
\* stored as of its latest entry list.
C14_AutoSave == <>[]Settled

\* C14 witness: both buckets edited, the first one twice, everything stored.
C14_Witness ==
  /\ Settled
  /\ commitCount = MaxCommits
  /\ \A d \in Days : commitLog[d] # << >>
  /\ \E d \in Days : Len(commitLog[d]) >= 2

\* ------------------------------------------ properties of the now panel
\* C15: a reported active entry is an entry of the today bucket with
\* startMinutes <= m < endMinutes; none is reported exactly when no entry of
\* the bucket has startMinutes <= m < endMinutes.
C15_ActiveHalfOpen ==
  /\ nowActive # << >> =>
       /\ nowActive[1] \in Range(todayEntries)
       /\ nowActive[1].startMinutes <= currentMinutes
       /\ currentMinutes < nowActive[1].endMinutes
  /\ nowActive = << >> <=>
       ~\E e \in Range(todayEntries) :
          e.startMinutes <= currentMinutes /\ currentMinutes < e.endMinutes

\* C15 witness: one entry ends now and is not the active one, another one
\* starts now and is.
C15_Witness ==
  /\ nowActive # << >>
  /\ nowActive[1].startMinutes = currentMinutes
  /\ \E e \in Range(todayEntries) : e.endMinutes = currentMinutes /\ << e >> # nowActive

\* The entries the next entry is chosen from.
UpcomingOthers ==
  {e \in Range(todayEntries) : e.startMinutes >= currentMinutes /\ << e >> # nowActive}

\* C16: the next entry is not the active entry, starts at or after m and no
\* other such entry starts earlier; it is null exactly when there is none.
C16_NextIsEarliest ==
  /\ nowNext # << >> =>
       /\ nowNext[1] \in UpcomingOthers
       /\ \A e \in UpcomingOthers : nowNext[1].startMinutes <= e.startMinutes
  /\ nowNext = << >> <=> UpcomingOthers = {}

\* C16 witness: an entry is active, a second one that starts now is the next
\* entry, a third one starts later.
C16_Witness ==
  /\ nowActive # << >>
  /\ nowNext # << >>
  /\ nowNext[1].startMinutes = currentMinutes
  /\ \E e \in UpcomingOthers : e.startMinutes > currentMinutes

====
